---- MODULE Spec2Model ----
(***************************************************************************)
(* LithoMaker: the mesh generator (src/mesh/meshgenerator.cpp) and the      *)
(* exporters (src/export/*.cpp) as state machines.                          *)
(*                                                                         *)
(* Lengths.  QVector3D holds floats in millimetres.  The model keeps every  *)
(* length in fixed point, Unit units to the millimetre; Unit is a multiple  *)
(* of 255 so that (totalThickness - minThickness) / 255.0f is exact for     *)
(* thicknesses given in tenths of a millimetre.  Other quotients truncate.  *)
(* The two factors of MeshConfig that lie in (0,1) are kept in percent.     *)
(***************************************************************************)
EXTENDS Integers, Sequences, FiniteSets, TLC

\* ------------------------------------------------------------- bounds
\* Grids have 2..MaxW columns and 2..MaxH rows (plus one grid of two chunks).
MaxW == 3
MaxH == 3
\* omp_get_max_threads() is 1..MaxThreads.
MaxThreads == 2
\* hangerCount is 1..MaxHangers.
MaxHangers == 2
\* exportMesh is called at most MaxExports times in a run.
MaxExports == 2
\* The volume of the path "full" has room for FreeBytes bytes of a file.
FreeBytes == 100

\* ------------------------------------------------- program constants
\* QTEXTSTREAM_BUFFERSIZE, the write buffer of the QTextStream of the OBJ
\* exporter
QTextStreamBufferSize == 16384
\* #pragma omp for schedule(dynamic, 32)
ChunkSize == 32
\* the greatest sample of a Format_Grayscale8 image, 255.0f in generate
MaxSample == 255
\* progressCallback(_, 100)
ProgressTotal == 100

\* --------------------------------------------------------- fixed point
Unit == MaxSample * 10
mm(n) == n * Unit
tenths(n) == (n * Unit) \div 10
\* a * p, p a factor in percent
pct(a, p) == (a * p) \div 100
Min(a, b) == IF a < b THEN a ELSE b

RECURSIVE Flatten(_, _, _)
\* f[lo] \o f[lo+1] \o ... \o f[hi], the appends of a for loop lo..hi
Flatten(f, lo, hi) == IF lo > hi THEN <<>> ELSE f[lo] \o Flatten(f, lo + 1, hi)

\* The triangles of a buffer: consecutive triples of vertices.
Triangles(mesh) ==
  [i \in 1..(Len(mesh) \div 3) |-> <<mesh[3 * i - 2], mesh[3 * i - 1], mesh[3 * i]>>]

Range(s) == {s[i] : i \in DOMAIN s}
Count(s, e) == Cardinality({i \in DOMAIN s : s[i] = e})
\* two sequences hold the same elements the same number of times
SameMultiset(a, b) ==
  /\ Len(a) = Len(b)
  /\ \A e \in Range(a) \cup Range(b) : Count(a, e) = Count(b, e)

\* -------------------------------------------------------------- inputs
\* A QImage of format Grayscale8: pixels[r][x] is constScanLine(r)[x], row 0
\* the top row of the picture.
Image(w, h, px(_, _)) ==
  [width |-> w, height |-> h,
   pixels |-> [r \in 0..(h - 1) |-> [x \in 0..(w - 1) |-> px(r, x)]]]

Flat(w, h, s) == LET px(r, x) == s IN Image(w, h, px)
\* row-major ramp from 0 (top left) to 255 (bottom right)
Ramp(w, h) ==
  LET px(r, x) == ((r * w + x) * MaxSample) \div (w * h - 1) IN Image(w, h, px)

\* the smallest grid, the widest and the largest, as ramps, and one flat grid
Sizes == {<<2, 2>>, <<MaxW, 2>>, <<MaxW, MaxH>>}
SmallImages == {Ramp(d[1], d[2]) : d \in Sizes} \cup {Flat(2, 2, 0)}
\* one grid whose rows 0..H-2 make two chunks of the dynamic schedule
TallImages == {Ramp(2, ChunkSize + 2)}
\* the grid of 4 x 4 samples of 128
ScenarioImages == {Flat(4, 4, 128)}
Images == SmallImages \cup TallImages \cup ScenarioImages

\* MeshConfig (meshgenerator.h); frameSlopeFactor and stabilizerHeightFactor
\* in percent.
BaseConfig ==
  [minThickness |-> tenths(8), totalThickness |-> tenths(40),
   frameBorder |-> tenths(30), width |-> mm(50), frameSlopeFactor |-> 75,
   enableStabilizers |-> TRUE, permanentStabilizers |-> FALSE,
   stabilizerThreshold |-> mm(60), stabilizerHeightFactor |-> 15,
   enableHangers |-> TRUE, hangerCount |-> 2,
   enableSegmentation |-> FALSE, backsideSegments |-> 1, frameSegments |-> 1]


\* disabled; enabled with the threshold at the total height of a square
\* grid; enabled and permanent with the threshold just below that height
StabilizerOptions ==
  {[enableStabilizers |-> FALSE, permanentStabilizers |-> FALSE,
    stabilizerThreshold |-> mm(50) - 1],
   [enableStabilizers |-> TRUE, permanentStabilizers |-> FALSE,
    stabilizerThreshold |-> mm(50)],
   [enableStabilizers |-> TRUE, permanentStabilizers |-> TRUE,
    stabilizerThreshold |-> mm(50) - 1]}
HangerOptions ==
  {[enableHangers |-> FALSE, hangerCount |-> 2]}
  \cup [enableHangers : {TRUE}, hangerCount : 1..MaxHangers]

WithOptions(s, g, seg, n) ==
  [BaseConfig EXCEPT
     !.enableStabilizers = s.enableStabilizers,
     !.permanentStabilizers = s.permanentStabilizers,
     !.stabilizerThreshold = s.stabilizerThreshold,
     !.enableHangers = g.enableHangers,
     !.hangerCount = g.hangerCount,
     !.enableSegmentation = seg,
     !.backsideSegments = n]

\* every stabilizer option with the most hangers; every hanger option
\* without stabilizers; segmentation requested (more than one segment) with
\* permanent stabilizers and no hangers; and segmentation enabled with a
\* single segment
Configs ==
  {WithOptions(s, g, FALSE, 1) :
     s \in StabilizerOptions,
     g \in {o \in HangerOptions : o.enableHangers /\ o.hangerCount = MaxHangers}}
  \cup {WithOptions(s, g, FALSE, 1) :
          s \in {o \in StabilizerOptions : ~o.enableStabilizers}, g \in HangerOptions}
  \cup {WithOptions(s, g, TRUE, 2) :
          s \in {o \in StabilizerOptions : o.permanentStabilizers},
          g \in {o \in HangerOptions : ~o.enableHangers}}
  \cup {WithOptions(s, g, TRUE, 1) :
          s \in {o \in StabilizerOptions : ~o.enableStabilizers},
          g \in {o \in HangerOptions : o.hangerCount = 1}}

\* the pictures the window loads, and the configurations its settings give
Pictures == {Ramp(2, MaxH), Flat(2, 2, MaxSample)}
PreviewConfigs ==
  {c \in Configs : ~c.enableSegmentation /\ c.enableStabilizers /\ c.enableHangers}

\* QImage::mirrored(false, true): the scan lines in reverse order
mirrored(img) ==
  [img EXCEPT !.pixels = [r \in 0..(img.height - 1) |-> img.pixels[img.height - 1 - r]]]
\* QImage::invertPixels() on Grayscale8
invertPixels(img) ==
  [img EXCEPT !.pixels = [r \in 0..(img.height - 1) |->
                            [x \in 0..(img.width - 1) |-> MaxSample - img.pixels[r][x]]]]

\* ------------------------------------------------------ mesh geometry
\* the factors generate computes before it builds anything
DepthFactor(config) == (config.totalThickness - config.minThickness) \div MaxSample
WidthFactor(config, img) == (config.width - (config.frameBorder * 2)) \div img.width
TotalHeight(config, img) ==
  (config.frameBorder * 2) + (img.height * WidthFactor(config, img))

scaleVertex(x, y, z, widthFactor, border) ==
  <<x * widthFactor + border, y * widthFactor + border, z>>

\* DepthBuffer with the sample inverted inside the tessellator
DepthBuffer_inverted(img, depthFactor) ==
  [y \in 0..(img.height - 1) |->
     [x \in 0..(img.width - 1) |->
        (MaxSample - img.pixels[img.height - 1 - y][x]) * depthFactor]]

\* DepthBuffer reading scan line y for row y
DepthBuffer_noflip(img, depthFactor) ==
  [y \in 0..(img.height - 1) |->
     [x \in 0..(img.width - 1) |-> img.pixels[y][x] * depthFactor]]

\* depthBuffer of generateLithophane: row y of the buffer is read from scan
\* line height - 1 - y of the image
DepthBuffer(img, depthFactor) ==
  [y \in 0..(img.height - 1) |->
     [x \in 0..(img.width - 1) |-> img.pixels[img.height - 1 - y][x] * depthFactor]]

\* LithophaneCell with the last append of the second surface triangle lost
LithophaneCell_short(x, y, width, height, buffer, minThickness, wf, b) ==
  LET row == buffer[y]
      nextRow == buffer[y + 1]
  IN << scaleVertex(x, y, row[x], wf, b),
        scaleVertex(x + 1, y + 1, nextRow[x + 1], wf, b),
        scaleVertex(x, y + 1, nextRow[x], wf, b),
        scaleVertex(x, y, row[x], wf, b),
        scaleVertex(x + 1, y, row[x + 1], wf, b) >>

\* LithophaneCell closing top and bottom in every iteration of the row loop
LithophaneCell_everyRow(x, y, width, height, buffer, minThickness, wf, b) ==
  LET topRow == buffer[0]
      bottomRow == buffer[height - 1]
  IN << scaleVertex(x + 1, 0, topRow[x + 1], wf, b),
        scaleVertex(x, 0, topRow[x], wf, b),
        scaleVertex(x, 0, minThickness, wf, b),
        scaleVertex(x, 0, minThickness, wf, b),
        scaleVertex(x + 1, 0, minThickness, wf, b),
        scaleVertex(x + 1, 0, topRow[x + 1], wf, b),
        scaleVertex(x, height - 1, minThickness, wf, b),
        scaleVertex(x, height - 1, bottomRow[x], wf, b),
        scaleVertex(x + 1, height - 1, bottomRow[x + 1], wf, b),
        scaleVertex(x + 1, height - 1, bottomRow[x + 1], wf, b),
        scaleVertex(x + 1, height - 1, minThickness, wf, b),
        scaleVertex(x, height - 1, minThickness, wf, b),
        scaleVertex(x, y, buffer[y][x], wf, b),
        scaleVertex(x + 1, y + 1, buffer[y + 1][x + 1], wf, b),
        scaleVertex(x, y + 1, buffer[y + 1][x], wf, b),
        scaleVertex(x, y, buffer[y][x], wf, b),
        scaleVertex(x + 1, y, buffer[y][x + 1], wf, b),
        scaleVertex(x + 1, y + 1, buffer[y + 1][x + 1], wf, b) >>

\* the body of the x loop for one cell
LithophaneCell(x, y, width, height, buffer, minThickness, wf, b) ==
  LET row == buffer[y]
      nextRow == buffer[y + 1]
      topRow == buffer[0]
      bottomRow == buffer[height - 1]
      topRightDepth == row[x + 1]
      topDepth == row[x]
      bottomDepth == nextRow[x]
      bottomRightDepth == nextRow[x + 1]
      caps ==
        IF y = 0
        THEN <<
          \* Close top
          scaleVertex(x + 1, 0, topRow[x + 1], wf, b),
          scaleVertex(x, 0, topRow[x], wf, b),
          scaleVertex(x, 0, minThickness, wf, b),
          scaleVertex(x, 0, minThickness, wf, b),
          scaleVertex(x + 1, 0, minThickness, wf, b),
          scaleVertex(x + 1, 0, topRow[x + 1], wf, b),
          \* Close bottom
          scaleVertex(x, height - 1, minThickness, wf, b),
          scaleVertex(x, height - 1, bottomRow[x], wf, b),
          scaleVertex(x + 1, height - 1, bottomRow[x + 1], wf, b),
          scaleVertex(x + 1, height - 1, bottomRow[x + 1], wf, b),
          scaleVertex(x + 1, height - 1, minThickness, wf, b),
          scaleVertex(x, height - 1, minThickness, wf, b) >>
        ELSE <<>>
  IN caps \o <<
       \* The lithophane heightmap - two triangles per pixel
       scaleVertex(x, y, topDepth, wf, b),
       scaleVertex(x + 1, y + 1, bottomRightDepth, wf, b),
       scaleVertex(x, y + 1, bottomDepth, wf, b),
       scaleVertex(x, y, topDepth, wf, b),
       scaleVertex(x + 1, y, topRightDepth, wf, b),
       scaleVertex(x + 1, y + 1, bottomRightDepth, wf, b) >>

\* LithophaneRow whose first right wall triangle starts on the base plane
LithophaneRow_rightBase(y, width, height, buffer, minThickness, wf, b) ==
  LET row == buffer[y]
      nextRow == buffer[y + 1]
      cells == [x \in 0..(width - 2) |->
                  LithophaneCell(x, y, width, height, buffer, minThickness, wf, b)]
  IN << scaleVertex(0, y, minThickness, wf, b),
        scaleVertex(0, y, row[0], wf, b),
        scaleVertex(0, y + 1, nextRow[0], wf, b),
        scaleVertex(0, y + 1, nextRow[0], wf, b),
        scaleVertex(0, y + 1, minThickness, wf, b),
        scaleVertex(0, y, minThickness, wf, b) >>
     \o Flatten(cells, 0, width - 2)
     \o << scaleVertex(width - 1, y + 1, minThickness, wf, b),
        scaleVertex(width - 1, y, row[width - 1], wf, b),
        scaleVertex(width - 1, y, minThickness, wf, b),
        scaleVertex(width - 1, y, minThickness, wf, b),
        scaleVertex(width - 1, y + 1, minThickness, wf, b),
        scaleVertex(width - 1, y + 1, nextRow[width - 1], wf, b) >>

\* the body of the y loop: what one iteration appends to localMesh
LithophaneRow(y, width, height, buffer, minThickness, wf, b) ==
  LET row == buffer[y]
      nextRow == buffer[y + 1]
      leftDepth == row[0]
      leftNextDepth == nextRow[0]
      rightNextDepth == nextRow[width - 1]
      rightDepth == row[width - 1]
      cells == [x \in 0..(width - 2) |->
                  LithophaneCell(x, y, width, height, buffer, minThickness, wf, b)]
  IN << \* Close left side
        scaleVertex(0, y, minThickness, wf, b),
        scaleVertex(0, y, leftDepth, wf, b),
        scaleVertex(0, y + 1, leftNextDepth, wf, b),
        scaleVertex(0, y + 1, leftNextDepth, wf, b),
        scaleVertex(0, y + 1, minThickness, wf, b),
        scaleVertex(0, y, minThickness, wf, b) >>
     \o Flatten(cells, 0, width - 2)
     \o << \* Close right side
        scaleVertex(width - 1, y + 1, rightNextDepth, wf, b),
        scaleVertex(width - 1, y, rightDepth, wf, b),
        scaleVertex(width - 1, y, minThickness, wf, b),
        scaleVertex(width - 1, y, minThickness, wf, b),
        scaleVertex(width - 1, y + 1, minThickness, wf, b),
        scaleVertex(width - 1, y + 1, rightNextDepth, wf, b) >>

\* rows lo..hi of the y loop, in loop order
LithophaneRows(lo, hi, img, config, depthFactor, wf, b) ==
  LET buffer == DepthBuffer(img, depthFactor)
      rows == [y \in lo..hi |->
                 LithophaneRow(y, img.width, img.height, buffer,
                               -config.minThickness, wf, b)]
  IN Flatten(rows, lo, hi)

\* generateBackside: simple flat backside (two triangles)
BacksideVertices(img, config, wf, b) ==
  LET minThickness == -config.minThickness
      height == img.height
      width == img.width
  IN << scaleVertex(0, height - 1, minThickness, wf, b),
        scaleVertex(width - 1, height - 1, minThickness, wf, b),
        scaleVertex(0, 0, minThickness, wf, b),
        scaleVertex(width - 1, height - 1, minThickness, wf, b),
        scaleVertex(width - 1, 0, minThickness, wf, b),
        scaleVertex(0, 0, minThickness, wf, b) >>

\* a backside in two strips, split at the middle column of the grid
SegmentedBacksideVertices_strips(img, config, wf, b) ==
  LET minThickness == -config.minThickness
      height == img.height
      width == img.width
      mid == (width - 1) \div 2
  IN << scaleVertex(0, height - 1, minThickness, wf, b),
        scaleVertex(mid, height - 1, minThickness, wf, b),
        scaleVertex(0, 0, minThickness, wf, b),
        scaleVertex(mid, height - 1, minThickness, wf, b),
        scaleVertex(mid, 0, minThickness, wf, b),
        scaleVertex(0, 0, minThickness, wf, b),
        scaleVertex(mid, height - 1, minThickness, wf, b),
        scaleVertex(width - 1, height - 1, minThickness, wf, b),
        scaleVertex(mid, 0, minThickness, wf, b),
        scaleVertex(width - 1, height - 1, minThickness, wf, b),
        scaleVertex(width - 1, 0, minThickness, wf, b),
        scaleVertex(mid, 0, minThickness, wf, b) >>

\* generateSegmentedBackside falls back to the flat backside
SegmentedBacksideVertices(img, config, wf, b) == BacksideVertices(img, config, wf, b)

FrameVertices(width, height, minThickness, depth, frameSlope, border) ==
  <<
    \* This is extracted from the original mainwindow.cpp addFrame function
    \* Bottom face
    <<width, height, -minThickness>>,
    <<0, height, -minThickness>>,
    <<0, height, depth>>,
    <<width, height, -minThickness>>,
    <<0, height, depth>>,
    <<width, height, depth>>,
    \* Inner slope
    <<width - border - frameSlope, border + frameSlope, 0>>,
    <<width - border - frameSlope, height - border - frameSlope, 0>>,
    <<border + frameSlope, height - border - frameSlope, 0>>,
    <<width - border - frameSlope, border + frameSlope, 0>>,
    <<border + frameSlope, height - border - frameSlope, 0>>,
    <<border + frameSlope, border + frameSlope, 0>>,
    \* Left face
    <<0, 0, depth>>,
    <<0, height, depth>>,
    <<0, height, -minThickness>>,
    <<0, 0, depth>>,
    <<0, height, -minThickness>>,
    <<0, 0, -minThickness>>,
    \* Top face
    <<0, 0, -minThickness>>,
    <<width, 0, -minThickness>>,
    <<width, 0, depth>>,
    <<0, 0, -minThickness>>,
    <<width, 0, depth>>,
    <<0, 0, depth>>,
    \* Right face
    <<width, 0, -minThickness>>,
    <<width, height, -minThickness>>,
    <<width, height, depth>>,
    <<width, 0, -minThickness>>,
    <<width, height, depth>>,
    <<width, 0, depth>>,
    \* Back face (outer)
    <<0, 0, -minThickness>>,
    <<0, height, -minThickness>>,
    <<width, height, -minThickness>>,
    <<0, 0, -minThickness>>,
    <<width, height, -minThickness>>,
    <<width, 0, -minThickness>>,
    \* Frame inner surfaces
    \* Left inner
    <<border, border, depth>>,
    <<border, height - border, depth>>,
    <<0, height, depth>>,
    <<border, border, depth>>,
    <<0, height, depth>>,
    <<0, 0, depth>>,
    \* Right inner
    <<width - border, height - border, depth>>,
    <<width - border, border, depth>>,
    <<width, 0, depth>>,
    <<width - border, height - border, depth>>,
    <<width, 0, depth>>,
    <<width, height, depth>>,
    \* Bottom inner
    <<border, height - border, depth>>,
    <<width - border, height - border, depth>>,
    <<width, height, depth>>,
    <<border, height - border, depth>>,
    <<width, height, depth>>,
    <<0, height, depth>>,
    \* Top inner
    <<width - border, border, depth>>,
    <<border, border, depth>>,
    <<0, 0, depth>>,
    <<width - border, border, depth>>,
    <<0, 0, depth>>,
    <<width, 0, depth>>,
    \* Slope surfaces
    \* Left slope
    <<border + frameSlope, border + frameSlope, 0>>,
    <<border + frameSlope, height - border - frameSlope, 0>>,
    <<border, height - border, depth>>,
    <<border + frameSlope, border + frameSlope, 0>>,
    <<border, height - border, depth>>,
    <<border, border, depth>>,
    \* Right slope
    <<width - border - frameSlope, height - border - frameSlope, 0>>,
    <<width - border - frameSlope, border + frameSlope, 0>>,
    <<width - border, border, depth>>,
    <<width - border - frameSlope, height - border - frameSlope, 0>>,
    <<width - border, border, depth>>,
    <<width - border, height - border, depth>>,
    \* Bottom slope
    <<border + frameSlope, height - border - frameSlope, 0>>,
    <<width - border - frameSlope, height - border - frameSlope, 0>>,
    <<width - border, height - border, depth>>,
    <<border + frameSlope, height - border - frameSlope, 0>>,
    <<width - border, height - border, depth>>,
    <<border, height - border, depth>>,
    \* Top slope
    <<width - border - frameSlope, border + frameSlope, 0>>,
    <<border + frameSlope, border + frameSlope, 0>>,
    <<border, border, depth>>,
    <<width - border - frameSlope, border + frameSlope, 0>>,
    <<border, border, depth>>,
    <<width - border, border, depth>>
  >>

FrontStabilizerVertices(x, h, z, depth, stabWidth, zDelta) ==
  <<
    \* Front face - left side
    <<x, 0, z + mm(1) - zDelta>>,
    <<x, 0, z + depth>>,
    <<x, h, z + mm(3)>>,
    <<x, h, z + mm(3)>>,
    <<x, h, z + mm(1) - zDelta>>,
    <<x, h - mm(1), z + mm(1) - zDelta>>,
    <<x, h, z + mm(3)>>,
    <<x, h - mm(1), z + mm(1) - zDelta>>,
    <<x, 0, z + mm(1) - zDelta>>,
    \* Front face - right side
    <<x + stabWidth, h, z + mm(3)>>,
    <<x + stabWidth, 0, z + depth>>,
    <<x + stabWidth, 0, z + mm(1) - zDelta>>,
    <<x + stabWidth, h - mm(1), z + mm(1) - zDelta>>,
    <<x + stabWidth, h, z + mm(1) - zDelta>>,
    <<x + stabWidth, h, z + mm(3)>>,
    <<x + stabWidth, 0, z + mm(1) - zDelta>>,
    <<x + stabWidth, h - mm(1), z + mm(1) - zDelta>>,
    <<x + stabWidth, h, z + mm(3)>>,
    \* Top faces
    <<x + mm(1), h, z + mm(1) - zDelta>>,
    <<x, h, z + mm(1) - zDelta>>,
    <<x, h, z + mm(3)>>,
    <<x, h, z + mm(3)>>,
    <<x + stabWidth, h, z + mm(3)>>,
    <<x + stabWidth, h, z + mm(1) - zDelta>>,
    <<x + stabWidth - mm(1), h, z + mm(1) - zDelta>>,
    <<x + mm(1), h, z + mm(1) - zDelta>>,
    <<x, h, z + mm(3)>>,
    <<x, h, z + mm(3)>>,
    <<x + stabWidth, h, z + mm(1) - zDelta>>,
    <<x + stabWidth - mm(1), h, z + mm(1) - zDelta>>,
    \* Bottom face
    <<x, 0, z + depth>>,
    <<x, 0, z + mm(1) - zDelta>>,
    <<x + stabWidth, 0, z + mm(1) - zDelta>>,
    <<x, 0, z + depth>>,
    <<x + stabWidth, 0, z + mm(1) - zDelta>>,
    <<x + stabWidth, 0, z + depth>>,
    \* Sloped front face (triangular)
    <<x, h, z + mm(3)>>,
    <<x, 0, z + depth>>,
    <<x + stabWidth, 0, z + depth>>,
    <<x, h, z + mm(3)>>,
    <<x + stabWidth, 0, z + depth>>,
    <<x + stabWidth, h, z + mm(3)>>,
    \* Inner connection faces
    <<x + mm(1), h - mm(1), z + mm(1) - zDelta>>,
    <<x + mm(1), h, z + mm(1) - zDelta>>,
    <<x + stabWidth - mm(1), h, z + mm(1) - zDelta>>,
    <<x + mm(1), h - mm(1), z + mm(1) - zDelta>>,
    <<x + stabWidth - mm(1), h, z + mm(1) - zDelta>>,
    <<x + stabWidth - mm(1), h - mm(1), z + mm(1) - zDelta>>
  >>

BackStabilizerVertices(x, h, z, depth, stabWidth, zDelta) ==
  <<
    \* Back face - right side
    <<x + stabWidth, 0, z - mm(1) + zDelta>>,
    <<x + stabWidth, 0, z - depth>>,
    <<x + stabWidth, h, z - mm(3)>>,
    <<x + stabWidth, h, z - mm(3)>>,
    <<x + stabWidth, h, z - mm(1) + zDelta>>,
    <<x + stabWidth, h - mm(1), z - mm(1) + zDelta>>,
    <<x + stabWidth, h, z - mm(3)>>,
    <<x + stabWidth, h - mm(1), z - mm(1) + zDelta>>,
    <<x + stabWidth, 0, z - mm(1) + zDelta>>,
    \* Back face - left side
    <<x, h, z - mm(3)>>,
    <<x, 0, z - depth>>,
    <<x, 0, z - mm(1) + zDelta>>,
    <<x, h - mm(1), z - mm(1) + zDelta>>,
    <<x, h, z - mm(1) + zDelta>>,
    <<x, h, z - mm(3)>>,
    <<x, 0, z - mm(1) + zDelta>>,
    <<x, h - mm(1), z - mm(1) + zDelta>>,
    <<x, h, z - mm(3)>>,
    \* Back top faces
    <<x + stabWidth - mm(1), h, z - mm(1) + zDelta>>,
    <<x + stabWidth, h, z - mm(1) + zDelta>>,
    <<x + stabWidth, h, z - mm(3)>>,
    <<x + stabWidth, h, z - mm(3)>>,
    <<x, h, z - mm(3)>>,
    <<x, h, z - mm(1) + zDelta>>,
    <<x + mm(1), h, z - mm(1) + zDelta>>,
    <<x + stabWidth - mm(1), h, z - mm(1) + zDelta>>,
    <<x + stabWidth, h, z - mm(3)>>,
    <<x + stabWidth, h, z - mm(3)>>,
    <<x, h, z - mm(1) + zDelta>>,
    <<x + mm(1), h, z - mm(1) + zDelta>>,
    \* Back bottom face
    <<x + stabWidth, 0, z - depth>>,
    <<x + stabWidth, 0, z - mm(1) + zDelta>>,
    <<x, 0, z - mm(1) + zDelta>>,
    <<x + stabWidth, 0, z - depth>>,
    <<x, 0, z - mm(1) + zDelta>>,
    <<x, 0, z - depth>>,
    \* Back sloped face
    <<x + stabWidth, h, z - mm(3)>>,
    <<x + stabWidth, 0, z - depth>>,
    <<x, 0, z - depth>>,
    <<x + stabWidth, h, z - mm(3)>>,
    <<x, 0, z - depth>>,
    <<x, h, z - mm(3)>>,
    \* Back inner faces
    <<x + stabWidth - mm(1), h - mm(1), z - mm(1) + zDelta>>,
    <<x + stabWidth - mm(1), h, z - mm(1) + zDelta>>,
    <<x + mm(1), h, z - mm(1) + zDelta>>,
    <<x + stabWidth - mm(1), h - mm(1), z - mm(1) + zDelta>>,
    <<x + mm(1), h, z - mm(1) + zDelta>>,
    <<x + mm(1), h - mm(1), z - mm(1) + zDelta>>
  >>

HangerVertices(x, height) ==
  <<
    \* Front face of hanger
    <<x + mm(3), height, 0>>,
    <<x, height, 0>>,
    <<x + mm(3), height + mm(3), 0>>,
    <<x + mm(3), height + mm(3), 0>>,
    <<x + mm(6), height + mm(3), 0>>,
    <<x + mm(9), height, 0>>,
    \* Loop hole
    <<x + mm(9), height, 0>>,
    <<x + mm(6), height, 0>>,
    <<x + mm(5), height + mm(1), 0>>,
    <<x + mm(4), height + mm(1), 0>>,
    <<x + mm(3), height, 0>>,
    <<x + mm(3), height + mm(3), 0>>,
    <<x + mm(3), height + mm(3), 0>>,
    <<x + mm(9), height, 0>>,
    <<x + mm(5), height + mm(1), 0>>,
    <<x + mm(3), height + mm(3), 0>>,
    <<x + mm(5), height + mm(1), 0>>,
    <<x + mm(4), height + mm(1), 0>>,
    \* Back face of hanger (z = 2)
    <<x + mm(3), height + mm(3), mm(2)>>,
    <<x, height, mm(2)>>,
    <<x + mm(3), height, mm(2)>>,
    <<x + mm(3), height + mm(3), mm(2)>>,
    <<x + mm(3), height, mm(2)>>,
    <<x + mm(4), height + mm(1), mm(2)>>,
    <<x + mm(9), height, mm(2)>>,
    <<x + mm(6), height + mm(3), mm(2)>>,
    <<x + mm(3), height + mm(3), mm(2)>>,
    <<x + mm(5), height + mm(1), mm(2)>>,
    <<x + mm(6), height, mm(2)>>,
    <<x + mm(9), height, mm(2)>>,
    <<x + mm(3), height + mm(3), mm(2)>>,
    <<x + mm(4), height + mm(1), mm(2)>>,
    <<x + mm(5), height + mm(1), mm(2)>>,
    <<x + mm(5), height + mm(1), mm(2)>>,
    <<x + mm(9), height, mm(2)>>,
    <<x + mm(3), height + mm(3), mm(2)>>,
    \* Side faces connecting front and back
    \* Inner loop sides
    <<x + mm(5), height + mm(1), 0>>,
    <<x + mm(6), height, 0>>,
    <<x + mm(6), height, mm(2)>>,
    <<x + mm(5), height + mm(1), 0>>,
    <<x + mm(6), height, mm(2)>>,
    <<x + mm(5), height + mm(1), mm(2)>>,
    \* Top arch
    <<x + mm(6), height + mm(3), 0>>,
    <<x + mm(3), height + mm(3), 0>>,
    <<x + mm(3), height + mm(3), mm(2)>>,
    <<x + mm(6), height + mm(3), 0>>,
    <<x + mm(3), height + mm(3), mm(2)>>,
    <<x + mm(6), height + mm(3), mm(2)>>
  >>

\* generateFrame(width, height)
\* generateFrame without the two triangles of the outer back face
FrameOf_noBack(config, width, height) ==
  LET minThickness == config.minThickness
      depth == config.totalThickness - minThickness
      frameSlope == pct(depth, config.frameSlopeFactor)
      border == config.frameBorder
      all == FrameVertices(width, height, minThickness, depth, frameSlope, border)
  IN SubSeq(all, 1, 30) \o SubSeq(all, 37, Len(all))
FrameOf(config, width, height) ==
  LET minThickness == config.minThickness
      depth == config.totalThickness - minThickness
      frameSlope == pct(depth, config.frameSlopeFactor)
      border == config.frameBorder
  IN FrameVertices(width, height, minThickness, depth, frameSlope, border)

addSingleStabilizer(x, stabHeight, depth, minThickness, totalThickness, zDelta, border) ==
  LET stabWidth == Min(border, mm(4))
      h == stabHeight
  IN FrontStabilizerVertices(x, h, totalThickness - minThickness, depth, stabWidth, zDelta)
     \o BackStabilizerVertices(x, h, -minThickness, depth, stabWidth, zDelta)

\* generateStabilizers(width, height); border is m_border
\* generateStabilizers with the offset taken off in the breakaway mode
StabilizersOf_swapped(config, width, height, border) ==
  LET stabHeight == pct(height, config.stabilizerHeightFactor)
      stabWidth == Min(border, mm(4))
      depth == stabHeight \div 2
      zDelta == IF config.permanentStabilizers THEN 0 ELSE mm(1)
  IN addSingleStabilizer(0, stabHeight, depth, config.minThickness,
                         config.totalThickness, zDelta, border)
     \o addSingleStabilizer(width - stabWidth, stabHeight, depth, config.minThickness,
                            config.totalThickness, zDelta, border)
StabilizersOf(config, width, height, border) ==
  LET stabHeight == pct(height, config.stabilizerHeightFactor)
      stabWidth == Min(border, mm(4))
      depth == stabHeight \div 2
      minThickness == config.minThickness
      totalThickness == config.totalThickness
      zDelta == IF config.permanentStabilizers THEN mm(1) ELSE 0
  IN addSingleStabilizer(0, stabHeight, depth, minThickness, totalThickness, zDelta, border)
     \o addSingleStabilizer(width - stabWidth, stabHeight, depth, minThickness,
                            totalThickness, zDelta, border)

\* generateHangers advancing by xDelta after each hanger
HangersOf_narrow(config, width, height) ==
  LET noOfHangers == config.hangerCount
      xDelta == (width \div noOfHangers) \div 2
      x0 == xDelta - tenths(45)
      loops == [i \in 0..(noOfHangers - 1) |-> HangerVertices(x0 + i * xDelta, height)]
  IN Flatten(loops, 0, noOfHangers - 1)
\* generateHangers(width, height): x starts at xDelta - 4.5 and advances by
\* xDelta * 2 after each hanger
HangersOf(config, width, height) ==
  LET noOfHangers == config.hangerCount
      xDelta == (width \div noOfHangers) \div 2
      x0 == xDelta - tenths(45)
      loops == [i \in 0..(noOfHangers - 1) |-> HangerVertices(x0 + i * (xDelta * 2), height)]
  IN Flatten(loops, 0, noOfHangers - 1)

\* ---------------------------------------------------------------- state
VARIABLES
  \* MeshGenerator's members
  m_config, m_mesh, m_meshDimensions, m_widthFactor, m_depthFactor, m_border,
  \* the generate call in progress or last finished: its arguments (with the
  \* configuration it started from), its local totalHeight, the invocations
  \* of its progress callback so far, and the value it returned
  pc, call, totalHeight, progress, returned,
  \* the build (USE_OPENMP) and omp_get_max_threads()
  useOpenMP, numThreads,
  \* the parallel region of generateLithophane: threadMeshes, the next
  \* iteration the dynamic schedule hands out, each thread's position, and
  \* the iterations each thread has run
  threadMeshes, nextRow, worker, rowsDone

genVars == <<m_config, m_mesh, m_meshDimensions, m_widthFactor, m_depthFactor,
             m_border, pc, call, totalHeight, progress, returned, useOpenMP,
             numThreads, threadMeshes, nextRow, worker, rowsDone>>

VARIABLES
  \* the file system: what each path holds, and the scratch directories
  \* under QDir::temp() with the members written to them
  files, tempDirs,
  \* the archiver processes started so far
  processes,
  \* the exportMesh call last made, the ExportResult last returned, and where
  \* the 3MF exporter is in its call
  exportCall, exportResult, exportPc

expVars == <<files, tempDirs, processes, exportCall, exportResult, exportPc>>

VARIABLES
  \* MainWindow: the flip checkbox, m_meshReady, m_currentMesh, whether the
  \* Preview and the Export button are enabled, where onPreviewClicked is
  \* (each position but "idle" is one of its calls of processEvents, or the
  \* call of generate), and the picture it loaded
  flipChecked, m_meshReady, m_currentMesh, previewEnabled, exportEnabled, winPc, loaded

winVars == <<flipChecked, m_meshReady, m_currentMesh, previewEnabled, exportEnabled,
             winPc, loaded>>

Threads == 0..(numThreads - 1)
\* no call yet; "again" says that the call found a buffer of an earlier one,
\* "preview" that onPreviewClicked made it, from which picture and checkbox
NoCall ==
  [image |-> Flat(2, 2, 0), callback |-> FALSE, config |-> BaseConfig,
   made |-> FALSE, again |-> FALSE, preview |-> FALSE,
   picture |-> Flat(2, 2, 0), flip |-> FALSE]
NoThreadMeshes == [t \in Threads |-> <<>>]
NoWorkers == [t \in Threads |-> [state |-> "out", lo |-> 0, hi |-> 0]]

\* MeshGenerator(config): the members' initializers of meshgenerator.h
GenInit ==
  /\ m_config \in Configs
  /\ m_mesh = <<>>
  /\ m_meshDimensions = <<-1, -1>>
  /\ m_widthFactor = Unit
  /\ m_depthFactor = Unit
  /\ m_border = 0
  /\ pc = "idle"
  /\ call = NoCall
  /\ totalHeight = 0
  /\ progress = <<>>
  /\ returned = <<>>
  /\ useOpenMP \in BOOLEAN
  /\ numThreads \in (IF useOpenMP THEN 1..MaxThreads ELSE {1})
  /\ threadMeshes = NoThreadMeshes
  /\ nextRow = 0
  /\ worker = NoWorkers
  /\ rowsDone = NoThreadMeshes

\* ------------------------------------------------------------- actions
setConfig(config) ==
  /\ pc = "idle"
  /\ m_config' = config
  /\ UNCHANGED expVars
  /\ UNCHANGED winVars
  /\ UNCHANGED <<m_mesh, m_meshDimensions, m_widthFactor, m_depthFactor, m_border,
                 pc, call, totalHeight, progress, returned, useOpenMP, numThreads,
                 threadMeshes, nextRow, worker, rowsDone>>

\* generate without m_mesh.clear()
generate_noClear(image, progressCallback) ==
  /\ pc = "idle"
  /\ m_mesh' = m_mesh
  /\ m_border' = m_config.frameBorder
  /\ m_depthFactor' = DepthFactor(m_config)
  /\ m_widthFactor' = WidthFactor(m_config, image)
  /\ totalHeight' = TotalHeight(m_config, image)
  /\ m_meshDimensions' = <<m_config.width, totalHeight'>>
  /\ call' = [image |-> image, callback |-> progressCallback, config |-> m_config,
              made |-> TRUE, again |-> m_mesh # <<>>, preview |-> FALSE,
              picture |-> image, flip |-> FALSE]
  /\ progress' = <<>>
  /\ returned' = <<>>
  /\ rowsDone' = [t \in 0..(numThreads - 1) |-> <<>>]
  /\ pc' = "generateLithophane"
  /\ UNCHANGED expVars
  /\ UNCHANGED winVars
  /\ UNCHANGED <<m_config, useOpenMP, numThreads, threadMeshes, nextRow, worker>>

\* generate, up to the call of generateLithophane.  The image is Grayscale8
\* already, so convertToFormat keeps it; reserve changes no content.
generate(image, progressCallback) ==
  /\ pc = "idle"
  /\ m_mesh' = <<>>
  /\ m_border' = m_config.frameBorder
  /\ m_depthFactor' = DepthFactor(m_config)
  /\ m_widthFactor' = WidthFactor(m_config, image)
  /\ totalHeight' = TotalHeight(m_config, image)
  /\ m_meshDimensions' = <<m_config.width, totalHeight'>>
  /\ call' = [image |-> image, callback |-> progressCallback, config |-> m_config,
              made |-> TRUE, again |-> m_mesh # <<>>, preview |-> FALSE,
              picture |-> image, flip |-> FALSE]
  /\ progress' = <<>>
  /\ returned' = <<>>
  /\ rowsDone' = NoThreadMeshes
  /\ pc' = "generateLithophane"
  /\ UNCHANGED expVars
  /\ UNCHANGED winVars
  /\ UNCHANGED <<m_config, useOpenMP, numThreads, threadMeshes, nextRow, worker>>

\* MainWindow::onPreviewClicked from "Configure mesh generator" to the call
\* of generate: setConfig, the flip the checkbox asks for, invertPixels, and
\* generate with the callback that moves the progress bar
PreviewCall(picture, flipVertical, config) ==
  /\ pc = "idle"
  /\ LET flipped == IF flipVertical THEN mirrored(picture) ELSE picture
         image == invertPixels(flipped)
     IN /\ m_config' = config
        /\ m_mesh' = <<>>
        /\ m_border' = config.frameBorder
        /\ m_depthFactor' = DepthFactor(config)
        /\ m_widthFactor' = WidthFactor(config, image)
        /\ totalHeight' = TotalHeight(config, image)
        /\ m_meshDimensions' = <<config.width, totalHeight'>>
        /\ call' = [image |-> image, callback |-> TRUE, config |-> config,
                    made |-> TRUE, again |-> m_mesh # <<>>, preview |-> TRUE,
                    picture |-> picture, flip |-> flipVertical]
  /\ progress' = <<>>
  /\ returned' = <<>>
  /\ rowsDone' = NoThreadMeshes
  /\ pc' = "generateLithophane"
  /\ UNCHANGED expVars
  /\ UNCHANGED <<useOpenMP, numThreads, threadMeshes, nextRow, worker>>

\* the call as the generator sees it, the window left as it is
onPreviewClicked(picture, flipVertical, config) ==
  /\ PreviewCall(picture, flipVertical, config)
  /\ UNCHANGED winVars

\* the iterations of the y loop
LastRow == call.image.height - 2
RowsOf(lo, hi) ==
  LithophaneRows(lo, hi, call.image, m_config, m_depthFactor, m_widthFactor, m_border)
RowNumbers(lo, hi) == [i \in 1..(hi - lo + 1) |-> lo + i - 1]

\* generateLithophane without USE_OPENMP: localMesh is m_mesh
generateLithophane ==
  /\ pc = "generateLithophane"
  /\ ~useOpenMP
  /\ m_mesh' = m_mesh \o RowsOf(0, LastRow)
  /\ rowsDone' = [rowsDone EXCEPT ![0] = @ \o RowNumbers(0, LastRow)]
  /\ pc' = "progress50"
  /\ UNCHANGED expVars
  /\ UNCHANGED winVars
  /\ UNCHANGED <<m_config, m_meshDimensions, m_widthFactor, m_depthFactor, m_border,
                 call, totalHeight, progress, returned, useOpenMP, numThreads,
                 threadMeshes, nextRow, worker>>

\* #pragma omp parallel: threadMeshes(numThreads), every thread enters the loop
ompParallel ==
  /\ pc = "generateLithophane"
  /\ useOpenMP
  /\ threadMeshes' = NoThreadMeshes
  /\ worker' = [t \in Threads |-> [state |-> "ready", lo |-> 0, hi |-> 0]]
  /\ nextRow' = 0
  /\ pc' = "parallel"
  /\ UNCHANGED expVars
  /\ UNCHANGED winVars
  /\ UNCHANGED <<m_config, m_mesh, m_meshDimensions, m_widthFactor, m_depthFactor,
                 m_border, call, totalHeight, progress, returned, useOpenMP,
                 numThreads, rowsDone>>

\* ompTakeChunk handing out the last iteration of a chunk a second time
ompTakeChunk_overlap(t) ==
  /\ pc = "parallel"
  /\ worker[t].state = "ready"
  /\ nextRow <= LastRow
  /\ LET hi == Min(nextRow + ChunkSize - 1, LastRow)
     IN /\ worker' = [worker EXCEPT ![t] = [state |-> "work", lo |-> nextRow, hi |-> hi]]
        /\ nextRow' = IF hi < LastRow THEN hi ELSE hi + 1
  /\ UNCHANGED expVars
  /\ UNCHANGED winVars
  /\ UNCHANGED <<m_config, m_mesh, m_meshDimensions, m_widthFactor, m_depthFactor,
                 m_border, pc, call, totalHeight, progress, returned, useOpenMP,
                 numThreads, threadMeshes, rowsDone>>

\* schedule(dynamic, 32): a free thread takes the next chunk of iterations
ompTakeChunk(t) ==
  /\ pc = "parallel"
  /\ worker[t].state = "ready"
  /\ nextRow <= LastRow
  /\ LET hi == Min(nextRow + ChunkSize - 1, LastRow)
     IN /\ worker' = [worker EXCEPT ![t] = [state |-> "work", lo |-> nextRow, hi |-> hi]]
        /\ nextRow' = hi + 1
  /\ UNCHANGED expVars
  /\ UNCHANGED winVars
  /\ UNCHANGED <<m_config, m_mesh, m_meshDimensions, m_widthFactor, m_depthFactor,
                 m_border, pc, call, totalHeight, progress, returned, useOpenMP,
                 numThreads, threadMeshes, rowsDone>>

\* the thread runs the iterations of its chunk, appending to its localMesh
ompRunChunk(t) ==
  /\ pc = "parallel"
  /\ worker[t].state = "work"
  /\ threadMeshes' = [threadMeshes EXCEPT ![t] = @ \o RowsOf(worker[t].lo, worker[t].hi)]
  /\ rowsDone' = [rowsDone EXCEPT ![t] = @ \o RowNumbers(worker[t].lo, worker[t].hi)]
  /\ worker' = [worker EXCEPT ![t] = [state |-> "ready", lo |-> 0, hi |-> 0]]
  /\ UNCHANGED expVars
  /\ UNCHANGED winVars
  /\ UNCHANGED <<m_config, m_mesh, m_meshDimensions, m_widthFactor, m_depthFactor,
                 m_border, pc, call, totalHeight, progress, returned, useOpenMP,
                 numThreads, nextRow>>

\* no iteration is left: the thread waits at the barrier that ends the loop
ompBarrier(t) ==
  /\ pc = "parallel"
  /\ worker[t].state = "ready"
  /\ nextRow > LastRow
  /\ worker' = [worker EXCEPT ![t] = [state |-> "joined", lo |-> 0, hi |-> 0]]
  /\ UNCHANGED expVars
  /\ UNCHANGED winVars
  /\ UNCHANGED <<m_config, m_mesh, m_meshDimensions, m_widthFactor, m_depthFactor,
                 m_border, pc, call, totalHeight, progress, returned, useOpenMP,
                 numThreads, threadMeshes, nextRow, rowsDone>>

\* the merge begun as soon as no iteration is left to hand out
ompMerge_noBarrier ==
  /\ pc = "parallel"
  /\ nextRow > LastRow
  /\ m_mesh' = m_mesh \o Flatten(threadMeshes, 0, numThreads - 1)
  /\ threadMeshes' = NoThreadMeshes
  /\ worker' = NoWorkers
  /\ pc' = "progress50"
  /\ UNCHANGED expVars
  /\ UNCHANGED winVars
  /\ UNCHANGED <<m_config, m_meshDimensions, m_widthFactor, m_depthFactor, m_border,
                 call, totalHeight, progress, returned, useOpenMP, numThreads,
                 nextRow, rowsDone>>

\* after the parallel region: merge thread-local meshes, in index order
ompMerge ==
  /\ pc = "parallel"
  /\ \A t \in Threads : worker[t].state = "joined"
  /\ m_mesh' = m_mesh \o Flatten(threadMeshes, 0, numThreads - 1)
  /\ threadMeshes' = NoThreadMeshes
  /\ worker' = NoWorkers
  /\ pc' = "progress50"
  /\ UNCHANGED expVars
  /\ UNCHANGED winVars
  /\ UNCHANGED <<m_config, m_meshDimensions, m_widthFactor, m_depthFactor, m_border,
                 call, totalHeight, progress, returned, useOpenMP, numThreads,
                 nextRow, rowsDone>>

\* if (progressCallback) progressCallback(current, 100);
Progress(at, current, next) ==
  /\ pc = at
  /\ progress' = IF call.callback THEN Append(progress, <<current, ProgressTotal>>)
                 ELSE progress
  /\ pc' = next
  /\ UNCHANGED expVars
  /\ UNCHANGED winVars
  /\ UNCHANGED <<m_config, m_mesh, m_meshDimensions, m_widthFactor, m_depthFactor,
                 m_border, call, totalHeight, returned, useOpenMP, numThreads,
                 threadMeshes, nextRow, worker, rowsDone>>

progress50 == Progress("progress50", 50, "generateBackside")
\* progress60 reporting the value of the checkpoint before it
progress60_repeat == Progress("progress60", 50, "generateFrame")
progress60 == Progress("progress60", 60, "generateFrame")
progress80 == Progress("progress80", 80, "generateStabilizers")
progress100 == Progress("progress100", 100, "return")

\* one builder of generate appends to m_mesh
Build(at, vertices, next) ==
  /\ pc = at
  /\ m_mesh' = m_mesh \o vertices
  /\ pc' = next
  /\ UNCHANGED expVars
  /\ UNCHANGED winVars
  /\ UNCHANGED <<m_config, m_meshDimensions, m_widthFactor, m_depthFactor, m_border,
                 call, totalHeight, progress, returned, useOpenMP, numThreads,
                 threadMeshes, nextRow, worker, rowsDone>>

generateBackside ==
  Build("generateBackside",
        IF m_config.enableSegmentation /\ m_config.backsideSegments > 1
        THEN SegmentedBacksideVertices(call.image, m_config, m_widthFactor, m_border)
        ELSE BacksideVertices(call.image, m_config, m_widthFactor, m_border),
        "progress60")

\* generateFrame putting the frame in front of what the buffer holds
generateFrame_prepend ==
  /\ pc = "generateFrame"
  /\ m_mesh' = FrameOf(m_config, m_config.width, totalHeight) \o m_mesh
  /\ pc' = "progress80"
  /\ UNCHANGED expVars
  /\ UNCHANGED winVars
  /\ UNCHANGED <<m_config, m_meshDimensions, m_widthFactor, m_depthFactor, m_border,
                 call, totalHeight, progress, returned, useOpenMP, numThreads,
                 threadMeshes, nextRow, worker, rowsDone>>

generateFrame ==
  Build("generateFrame", FrameOf(m_config, m_config.width, totalHeight), "progress80")

\* StabilizersNeeded with the threshold itself counted as above it
StabilizersNeeded_ge ==
  m_config.enableStabilizers /\ totalHeight >= m_config.stabilizerThreshold

\* Generate stabilizers if needed
StabilizersNeeded == m_config.enableStabilizers /\ totalHeight > m_config.stabilizerThreshold
generateStabilizers ==
  Build("generateStabilizers",
        IF StabilizersNeeded
        THEN StabilizersOf(m_config, m_config.width, totalHeight, m_border)
        ELSE <<>>,
        "generateHangers")

HangersNeeded == m_config.enableHangers
generateHangers ==
  Build("generateHangers",
        IF HangersNeeded THEN HangersOf(m_config, m_config.width, totalHeight) ELSE <<>>,
        "progress100")

\* return m_mesh;
generateReturn ==
  /\ pc = "return"
  /\ returned' = m_mesh
  /\ pc' = "idle"
  /\ UNCHANGED expVars
  /\ UNCHANGED winVars
  /\ UNCHANGED <<m_config, m_mesh, m_meshDimensions, m_widthFactor, m_depthFactor,
                 m_border, call, totalHeight, progress, useOpenMP, numThreads,
                 threadMeshes, nextRow, worker, rowsDone>>

GenNext ==
  \/ \E config \in Configs : setConfig(config)
  \/ \E image \in Images, progressCallback \in BOOLEAN : generate(image, progressCallback)
  \/ \E picture \in Pictures, flipVertical \in BOOLEAN, config \in PreviewConfigs :
       onPreviewClicked(picture, flipVertical, config)
  \/ generateLithophane
  \/ ompParallel
  \/ \E t \in Threads : ompTakeChunk(t)
  \/ \E t \in Threads : ompRunChunk(t)
  \/ \E t \in Threads : ompBarrier(t)
  \/ ompMerge
  \/ progress50
  \/ generateBackside
  \/ progress60
  \/ generateFrame
  \/ progress80
  \/ generateStabilizers
  \/ generateHangers
  \/ progress100
  \/ generateReturn

\* ---------------------------------------------------------- main window
NoPicture == Flat(2, 2, 0)
\* createWidgets: the checkbox unchecked, Preview enabled, Export disabled;
\* no mesh yet
WinInit ==
  /\ flipChecked = FALSE
  /\ m_meshReady = FALSE
  /\ m_currentMesh = <<>>
  /\ previewEnabled = TRUE
  /\ exportEnabled = FALSE
  /\ winPc = "idle"
  /\ loaded = NoPicture

\* onPreviewClicked up to its first processEvents: without the input file a
\* warning and nothing else; with it both buttons disabled, m_meshReady reset
onPreviewClicked_begin(exists) ==
  /\ winPc = "idle"
  /\ pc = "idle"
  /\ previewEnabled
  /\ IF ~exists
     THEN UNCHANGED <<previewEnabled, exportEnabled, m_meshReady, winPc>>
     ELSE /\ previewEnabled' = FALSE
          /\ exportEnabled' = FALSE
          /\ m_meshReady' = FALSE
          /\ winPc' = "loading"
  /\ UNCHANGED <<flipChecked, m_currentMesh, loaded>>
  /\ UNCHANGED genVars
  /\ UNCHANGED expVars

\* ImageLoader::load and the two questions, up to the second processEvents:
\* the load fails, the user declines the picture, or the picture is kept
onPreviewClicked_load(outcome, picture) ==
  /\ winPc = "loading"
  /\ IF outcome \in {"loadFailed", "declined"}
     THEN /\ previewEnabled' = TRUE
          /\ winPc' = "idle"
          /\ UNCHANGED loaded
     ELSE /\ loaded' = picture
          /\ winPc' = "generating"
          /\ UNCHANGED previewEnabled
  /\ UNCHANGED <<flipChecked, m_meshReady, m_currentMesh, exportEnabled>>
  /\ UNCHANGED genVars
  /\ UNCHANGED expVars

\* the configuration from the settings, setConfig, the flip the checkbox
\* asks for at this moment, invertPixels, and the call of generate
onPreviewClicked_generate(config) ==
  /\ winPc = "generating"
  /\ PreviewCall(loaded, flipChecked, config)
  /\ winPc' = "generated"
  /\ UNCHANGED <<flipChecked, m_meshReady, m_currentMesh, previewEnabled,
                 exportEnabled, loaded>>

\* generate has returned: m_currentMesh, m_meshReady = true, up to the
\* processEvents before the preview is updated
onPreviewClicked_store ==
  /\ winPc = "generated"
  /\ pc = "idle"
  /\ m_currentMesh' = returned
  /\ m_meshReady' = TRUE
  /\ winPc' = "updating"
  /\ UNCHANGED <<flipChecked, previewEnabled, exportEnabled, loaded>>
  /\ UNCHANGED genVars
  /\ UNCHANGED expVars

\* setMesh, and both buttons enabled
onPreviewClicked_end ==
  /\ winPc = "updating"
  /\ previewEnabled' = TRUE
  /\ exportEnabled' = TRUE
  /\ loaded' = NoPicture
  /\ winPc' = "idle"
  /\ UNCHANGED <<flipChecked, m_meshReady, m_currentMesh>>
  /\ UNCHANGED genVars
  /\ UNCHANGED expVars

\* where the window handles events: in its event loop, in the processEvents
\* of onPreviewClicked, and in the processEvents of the progress callback,
\* which generate has just called
InCallback ==
  /\ call.callback
  /\ pc \in {"generateBackside", "generateFrame", "generateStabilizers", "return"}
ProcessingEvents ==
  \/ winPc \in {"idle", "loading", "generating", "updating"}
  \/ winPc = "generated" /\ InCallback

\* the user toggles the checkbox; onFlipChanged invalidates a mesh that is ready
onFlipChanged ==
  /\ ProcessingEvents
  /\ flipChecked' = ~flipChecked
  /\ IF m_meshReady
     THEN m_meshReady' = FALSE /\ exportEnabled' = FALSE
     ELSE UNCHANGED <<m_meshReady, exportEnabled>>
  /\ UNCHANGED <<m_currentMesh, previewEnabled, winPc, loaded>>
  /\ UNCHANGED genVars
  /\ UNCHANGED expVars

WindowNext ==
  \/ \E exists \in BOOLEAN : onPreviewClicked_begin(exists)
  \/ \E outcome \in {"loadFailed", "declined", "loaded"}, picture \in Pictures :
       onPreviewClicked_load(outcome, picture)
  \/ \E config \in PreviewConfigs : onPreviewClicked_generate(config)
  \/ generateLithophane
  \/ ompParallel
  \/ \E t \in Threads : ompTakeChunk(t)
  \/ \E t \in Threads : ompRunChunk(t)
  \/ \E t \in Threads : ompBarrier(t)
  \/ ompMerge
  \/ progress50
  \/ generateBackside
  \/ progress60
  \/ generateFrame
  \/ progress80
  \/ generateStabilizers
  \/ generateHangers
  \/ progress100
  \/ generateReturn
  \/ onPreviewClicked_store
  \/ onPreviewClicked_end
  \/ onFlipChanged

\* ------------------------------------------------------------ exporters
\* The buffers handed to the exporters have their coordinates in units of
\* 10^-7 mm, so that the six decimals of the text formats round.
Abs(n) == IF n < 0 THEN -n ELSE n
Max(a, b) == IF a > b THEN a ELSE b
RECURSIVE Digits(_)
\* the number of decimal digits of n >= 0
Digits(n) == IF n < 10 THEN 1 ELSE 1 + Digits(n \div 10)
RECURSIVE Pow10(_)
Pow10(k) == IF k <= 0 THEN 1 ELSE 10 * Pow10(k - 1)
RECURSIVE StripZeros(_)
\* n > 0 without its trailing zeros
StripZeros(n) == IF n % 10 = 0 THEN StripZeros(n \div 10) ELSE n
\* n rounded to the nearest multiple of m
RoundTo(n, m) ==
  LET r == ((Abs(n) + (m \div 2)) \div m) * m IN IF n < 0 THEN -r ELSE r
RECURSIVE Bytes(_)
\* the bytes of a sequence of pieces, each with its own count
Bytes(pieces) == IF pieces = <<>> THEN 0 ELSE Head(pieces).bytes + Bytes(Tail(pieces))

\* QString::arg(double, 0, 'f', 6), and operator<< of a QTextStream in
\* FixedNotation with precision 6: the number rounded to six decimals, and
\* the characters it takes (sign, integer digits, point, six decimals).  No
\* buffer of the model has a negative coordinate that rounds to zero.
formatF6(c) ==
  LET r == RoundTo(c, 10)
  IN [value |-> r,
      bytes |-> (IF r < 0 THEN 1 ELSE 0) + Digits(Abs(r) \div Pow10(7)) + 1 + 6]

\* QString::arg(double, 0, 'g', 6): six significant digits, trailing zeros
\* removed, scientific notation if the decimal exponent is below -4 or at
\* least 6
formatG6(c) ==
  LET d == Digits(Abs(c))
      r == IF d > 6 THEN RoundTo(c, Pow10(d - 6)) ELSE c
      a == Abs(r)
      k == Digits(StripZeros(a))
      e == Digits(a) - 1 - 7
      sign == IF r < 0 THEN 1 ELSE 0
      chars ==
        IF a = 0 THEN 1
        ELSE IF e < -4 \/ e >= 6
          THEN k + (IF k > 1 THEN 1 ELSE 0) + 2 + Max(2, Digits(Abs(e)))
        ELSE IF e >= 0
          THEN (e + 1) + (IF k > e + 1 THEN 1 + (k - (e + 1)) ELSE 0)
        ELSE 2 + (-e - 1) + k
  IN [value |-> r, bytes |-> sign + chars]

\* a piece of text written to a file, one byte a character
Text(s) == [text |-> s, bytes |-> Len(s)]
\* a piece of text with three formatted numbers in the places of %1 %2 %3
TextArgs(s, args) ==
  [text |-> s, args |-> [i \in DOMAIN args |-> args[i].value],
   bytes |-> Len(s) - (2 * Len(args)) + Bytes(args)]
\* an integer (not negative) written in decimal
formatInt(n) == [value |-> n, bytes |-> Digits(n)]

\* the files of the model: none, one that something else wrote, and the
\* ones the exporters write
NoFile == [kind |-> "none"]
OtherFile == [kind |-> "other", bytes |-> Len("not a mesh")]
FileSize(file) ==
  IF file.kind = "none" THEN 0
  ELSE IF file.kind \in {"binary", "text"} THEN Bytes(file.content)
  ELSE file.bytes
RECURSIVE Accepted(_, _)
\* what a device with room for `room` bytes keeps of the pieces written to
\* it: the pieces that fit, and the first bytes of the one that does not
Accepted(pieces, room) ==
  IF pieces = <<>> THEN <<>>
  ELSE IF Head(pieces).bytes <= room
    THEN <<Head(pieces)>> \o Accepted(Tail(pieces), room - Head(pieces).bytes)
  ELSE IF room > 0 THEN <<[field |-> "cut", bytes |-> room]>>
  ELSE <<>>

\* exportBinary with the vertices of a triangle written last to first
BinaryTriangle_reversed(mesh, i) ==
  <<[field |-> "normal", bytes |-> 4 * 3, value |-> <<0, 0, 0>>]>>
  \o [j \in 1..3 |-> [field |-> "vertex", bytes |-> 4 * 3, value |-> mesh[i + 3 - j]]]
  \o <<[field |-> "attrByteCount", bytes |-> 2, value |-> 0]>>
\* exportBinary: what it writes for a buffer.  The header is the name and
\* the zeros memset left behind it; a float is written as it is held.
BinaryTriangle(mesh, i) ==
  <<[field |-> "normal", bytes |-> 4 * 3, value |-> <<0, 0, 0>>]>>
  \o [j \in 1..3 |-> [field |-> "vertex", bytes |-> 4 * 3, value |-> mesh[i + j - 1]]]
  \o <<[field |-> "attrByteCount", bytes |-> 2, value |-> 0]>>
BinaryStl(mesh) ==
  [kind |-> "binary",
   content |->
     <<[field |-> "header", bytes |-> 80, value |-> "LithoMaker Export",
        zeros |-> 80 - Len("LithoMaker Export")],
       [field |-> "triangleCount", bytes |-> 4, value |-> Len(mesh) \div 3]>>
     \o Flatten([t \in 1..(Len(mesh) \div 3) |-> BinaryTriangle(mesh, 3 * t - 2)],
                1, Len(mesh) \div 3)]

\* exportAscii: what it writes for a buffer
AsciiVertex(v) ==
  TextArgs("\t\tvertex %1 %2 %3\n", <<formatG6(v[1]), formatG6(v[2]), formatG6(v[3])>>)
\* exportAscii with the vertices of a triangle written last to first
AsciiTriangle_reversed(mesh, i) ==
  <<Text("facet normal 0.0 0.0 0.0\n"), Text("\touter loop\n")>>
  \o [j \in 1..3 |-> AsciiVertex(mesh[i + 3 - j])]
  \o <<Text("\tendloop\n"), Text("endfacet\n")>>
AsciiTriangle(mesh, i) ==
  <<Text("facet normal 0.0 0.0 0.0\n"), Text("\touter loop\n")>>
  \o [j \in 1..3 |-> AsciiVertex(mesh[i + j - 1])]
  \o <<Text("\tendloop\n"), Text("endfacet\n")>>
AsciiStl(mesh) ==
  [kind |-> "text",
   content |->
     <<Text("solid lithophane\n")>>
     \o Flatten([t \in 1..(Len(mesh) \div 3) |-> AsciiTriangle(mesh, 3 * t - 2)],
                1, Len(mesh) \div 3)
     \o <<Text("endsolid\n")>>]

\* getVertexKey with all the digits of the coordinates
getVertexKey_exact(v) == <<v[1], v[2], v[3]>>
\* getVertexKey of the OBJ and 3MF exporters
getVertexKey(v) == <<formatF6(v[1]).value, formatF6(v[2]).value, formatF6(v[3]).value>>
RECURSIVE Deduplicate(_, _, _, _)
\* the loop over the buffer that fills vertexMap (a function from the keys
\* met so far to their indices), uniqueVertices and the list of indices; a
\* new key gets uniqueVertices.size() + first, first being 1 in the OBJ
\* exporter and 0 in the 3MF exporter
Deduplicate(mesh, i, acc, first) ==
  IF i > Len(mesh) THEN acc
  ELSE LET key == getVertexKey(mesh[i])
       IN IF key \notin DOMAIN acc.vertexMap
          THEN Deduplicate(mesh, i + 1,
                 [vertexMap |-> [k \in DOMAIN acc.vertexMap \cup {key} |->
                                  IF k = key THEN Len(acc.uniqueVertices) + first
                                  ELSE acc.vertexMap[k]],
                  uniqueVertices |-> Append(acc.uniqueVertices, mesh[i]),
                  indices |-> Append(acc.indices, Len(acc.uniqueVertices) + first)],
                 first)
          ELSE Deduplicate(mesh, i + 1,
                 [acc EXCEPT !.indices = Append(@, acc.vertexMap[key])], first)
\* the loop with indices from 0 whatever the exporter
UniqueVertices_fromZero(mesh, first) ==
  Deduplicate(mesh, 1, [vertexMap |-> <<>>, uniqueVertices |-> <<>>, indices |-> <<>>], 0)
UniqueVertices(mesh, first) ==
  Deduplicate(mesh, 1, [vertexMap |-> <<>>, uniqueVertices |-> <<>>, indices |-> <<>>],
              first)

\* ObjExporter::exportMesh: what it sends to the QTextStream, one piece for
\* every operand of <<
ObjVertex(v) ==
  <<Text("v "), formatF6(v[1]), Text(" "), formatF6(v[2]), Text(" "), formatF6(v[3]),
    Text("\n")>>
ObjFace(indices, i) ==
  <<Text("f "), formatInt(indices[i]), Text(" "), formatInt(indices[i + 1]),
    Text(" "), formatInt(indices[i + 2]), Text("\n")>>
ObjPieces(mesh) ==
  LET d == UniqueVertices(mesh, 1)
  IN <<Text("# LithoMaker Export\n"),
       Text("# Triangles: "), formatInt(Len(mesh) \div 3), Text("\n\n"),
       Text("o lithophane\n\n")>>
     \o Flatten([k \in DOMAIN d.uniqueVertices |-> ObjVertex(d.uniqueVertices[k])],
                1, Len(d.uniqueVertices))
     \o <<Text("\n# Faces\n")>>
     \o Flatten([t \in 1..(Len(mesh) \div 3) |-> ObjFace(d.indices, 3 * t - 2)],
                1, Len(mesh) \div 3)
RECURSIVE TextStreamFlushed(_, _, _, _)
\* what a QTextStream has passed on to its device after the pieces from i on:
\* it keeps what is written in its own buffer and passes the buffer on when it
\* has grown beyond QTextStreamBufferSize
TextStreamFlushed(pieces, i, buffered, flushed) ==
  IF i > Len(pieces) THEN flushed
  ELSE LET b == buffered + pieces[i].bytes
       IN IF b > QTextStreamBufferSize
          THEN TextStreamFlushed(pieces, i + 1, 0, flushed + b)
          ELSE TextStreamFlushed(pieces, i + 1, b, flushed)

\* the members of the 3MF package
generateContentTypesXml ==
  <<Text("<?xml version=\"1.0\" encoding=\"UTF-8\"?>\n"),
    Text("<Types xmlns=\"http://schemas.openxmlformats.org/package/2006/content-types\">\n"),
    Text("  <Default Extension=\"rels\" ContentType=\"application/vnd.openxmlformats-package.relationships+xml\"/>\n"),
    Text("  <Default Extension=\"model\" ContentType=\"application/vnd.ms-package.3dmanufacturing-3dmodel+xml\"/>\n"),
    Text("</Types>\n")>>
generateRelsXml ==
  <<Text("<?xml version=\"1.0\" encoding=\"UTF-8\"?>\n"),
    Text("<Relationships xmlns=\"http://schemas.openxmlformats.org/package/2006/relationships\">\n"),
    Text("  <Relationship Target=\"/3D/3dmodel.model\" Id=\"rel0\" Type=\"http://schemas.microsoft.com/3dmanufacturing/2013/01/3dmodel\"/>\n"),
    Text("</Relationships>\n")>>
ModelVertex(v) ==
  TextArgs("          <vertex x=\"%1\" y=\"%2\" z=\"%3\"/>\n",
           <<formatF6(v[1]), formatF6(v[2]), formatF6(v[3])>>)
ModelTriangle(indices, i) ==
  TextArgs("          <triangle v1=\"%1\" v2=\"%2\" v3=\"%3\"/>\n",
           <<formatInt(indices[i]), formatInt(indices[i + 1]), formatInt(indices[i + 2])>>)
generateModelXml(mesh) ==
  LET d == UniqueVertices(mesh, 0)
  IN <<Text("<?xml version=\"1.0\" encoding=\"UTF-8\"?>\n"),
       Text("<model unit=\"millimeter\" xmlns=\"http://schemas.microsoft.com/3dmanufacturing/core/2015/02\">\n"),
       Text("  <resources>\n"),
       Text("    <object id=\"1\" type=\"model\">\n"),
       Text("      <mesh>\n"),
       Text("        <vertices>\n")>>
     \o [k \in DOMAIN d.uniqueVertices |-> ModelVertex(d.uniqueVertices[k])]
     \o <<Text("        </vertices>\n        <triangles>\n")>>
     \o [t \in 1..(Len(mesh) \div 3) |-> ModelTriangle(d.indices, 3 * t - 2)]
     \o <<Text("        </triangles>\n"),
          Text("      </mesh>\n"),
          Text("    </object>\n"),
          Text("  </resources>\n"),
          Text("  <build>\n"),
          Text("    <item objectid=\"1\"/>\n"),
          Text("  </build>\n"),
          Text("</model>\n")>>
Members == {"[Content_Types].xml", "_rels/.rels", "3D/3dmodel.model"}
MemberContent(name, mesh) ==
  [kind |-> "text",
   content |-> IF name = "[Content_Types].xml" THEN generateContentTypesXml
               ELSE IF name = "_rels/.rels" THEN generateRelsXml
               ELSE generateModelXml(mesh)]

\* the buffers handed to the exporters: empty, one and two vertices, one
\* triangle, a triangle and one vertex more, two triangles that share two
\* vertices and whose other two agree in their first six decimals, and a
\* triangle with two corners that agree in their first six decimals
VertexA == <<0, 0, 0>>
VertexB == <<10000000, 0, 4>>
VertexC == <<0, 12345678, -8000000>>
VertexD == <<10000000, 0, 0>>
ExportMeshes ==
  {<<>>, <<VertexA>>, <<VertexA, VertexB>>, <<VertexA, VertexB, VertexC>>,
   <<VertexA, VertexB, VertexC, VertexA>>,
   <<VertexA, VertexB, VertexC, VertexA, VertexC, VertexD>>,
   <<VertexB, VertexD, VertexC>>}
StlFormat == {"Binary", "Ascii"}
\* the paths exports go to; QFile::open fails on the second; the third is on
\* a volume that is nearly full, where a file opens and its writes fail once
\* the room is used up
Paths == {"export", "readonly", "full"}
ReadOnlyPaths == {"readonly"}
FullPaths == {"full"}
CanOpen(filePath) == filePath \notin ReadOnlyPaths
HasRoom(filePath, bytes) == filePath \notin FullPaths \/ bytes <= FreeBytes
errorString == "Permission denied"

NoExport == [n |-> 0, exporter |-> "none", mesh |-> <<>>, filePath |-> "export"]
\* ExportResult and its initializers (exporter.h)
ExportResult(success, errorMessage, bytesWritten) ==
  [success |-> success, errorMessage |-> errorMessage, bytesWritten |-> bytesWritten]
NoResult == ExportResult(FALSE, "", 0)

\* the exporters at rest, on an empty file system
ExpIdle ==
  /\ files = [p \in Paths |-> NoFile]
  /\ tempDirs = {}
  /\ processes = <<>>
  /\ exportCall = NoExport
  /\ exportResult = NoResult
  /\ exportPc = "idle"
\* the exporters at rest; the read-only path holds a file, the other may
ExpInit ==
  /\ files \in {[p \in Paths |-> IF p \in ReadOnlyPaths THEN OtherFile
                                 ELSE IF p \in FullPaths THEN NoFile ELSE f] :
                  f \in {NoFile, OtherFile}}
  /\ tempDirs = {}
  /\ processes = <<>>
  /\ exportCall = NoExport
  /\ exportResult = NoResult
  /\ exportPc = "idle"

CanExport == exportPc = "idle" /\ exportCall.n < MaxExports
Called(exporter, mesh, filePath) ==
  [n |-> exportCall.n + 1, exporter |-> exporter, mesh |-> mesh, filePath |-> filePath]
\* the writes of a file with the text of the error left out of the message
WriteFile_noErrorString(filePath, file, written) ==
  IF ~CanOpen(filePath)
  THEN /\ exportResult' = ExportResult(FALSE, "Cannot open file for writing: ", 0)
       /\ UNCHANGED files
  ELSE /\ files' = [files EXCEPT ![filePath] = file]
       /\ exportResult' = ExportResult(TRUE, "", written)
\* QFile::open(WriteOnly) truncates or creates the file; the writes follow,
\* their results are not looked at; QFile::size() flushes the QFile and is
\* what was written to it, or 0 if the flush fails; the result is a success
\* either way
WriteFile(filePath, file, written) ==
  IF ~CanOpen(filePath)
  THEN /\ exportResult' =
            ExportResult(FALSE, "Cannot open file for writing: " \o errorString, 0)
       /\ UNCHANGED files
  ELSE IF ~HasRoom(filePath, FileSize(file))
  THEN /\ files' = [files EXCEPT ![filePath] =
                      [file EXCEPT !.content = Accepted(@, FreeBytes)]]
       /\ exportResult' = ExportResult(TRUE, "", 0)
  ELSE /\ files' = [files EXCEPT ![filePath] = file]
       /\ exportResult' = ExportResult(TRUE, "", written)

exportBinary(mesh, filePath) ==
  WriteFile(filePath, BinaryStl(mesh), FileSize(BinaryStl(mesh)))
exportAscii(mesh, filePath) ==
  WriteFile(filePath, AsciiStl(mesh), FileSize(AsciiStl(mesh)))

\* StlExporter::exportMesh without the check for an empty buffer
StlExporter_exportMesh_noEmptyCheck(m_format, mesh, filePath) ==
  /\ CanExport
  /\ exportCall' = Called("Stl" \o m_format, mesh, filePath)
  /\ IF Len(mesh) % 3 # 0
     THEN /\ exportResult' =
               ExportResult(FALSE, "Invalid mesh: vertex count not divisible by 3", 0)
          /\ UNCHANGED files
     ELSE IF m_format = "Binary" THEN exportBinary(mesh, filePath)
     ELSE exportAscii(mesh, filePath)
  /\ UNCHANGED <<tempDirs, processes, exportPc>>
  /\ UNCHANGED genVars
  /\ UNCHANGED winVars

StlExporter_exportMesh(m_format, mesh, filePath) ==
  /\ CanExport
  /\ exportCall' = Called("Stl" \o m_format, mesh, filePath)
  /\ IF mesh = <<>>
     THEN /\ exportResult' = ExportResult(FALSE, "Empty mesh", 0)
          /\ UNCHANGED files
     ELSE IF Len(mesh) % 3 # 0
     THEN /\ exportResult' =
               ExportResult(FALSE, "Invalid mesh: vertex count not divisible by 3", 0)
          /\ UNCHANGED files
     ELSE IF m_format = "Binary" THEN exportBinary(mesh, filePath)
     ELSE exportAscii(mesh, filePath)
  /\ UNCHANGED <<tempDirs, processes, exportPc>>
  /\ UNCHANGED genVars
  /\ UNCHANGED winVars

\* the file is the text of all pieces (closing the file flushes the stream);
\* written is QFile::size() before that
ObjExporter_exportMesh(mesh, filePath) ==
  /\ CanExport
  /\ exportCall' = Called("Obj", mesh, filePath)
  /\ IF mesh = <<>>
     THEN /\ exportResult' = ExportResult(FALSE, "Empty mesh", 0)
          /\ UNCHANGED files
     ELSE IF Len(mesh) % 3 # 0
     THEN /\ exportResult' =
               ExportResult(FALSE, "Invalid mesh: vertex count not divisible by 3", 0)
          /\ UNCHANGED files
     ELSE WriteFile(filePath, [kind |-> "text", content |-> ObjPieces(mesh)],
                    TextStreamFlushed(ObjPieces(mesh), 1, 0, 0))
  /\ UNCHANGED <<tempDirs, processes, exportPc>>
  /\ UNCHANGED genVars
  /\ UNCHANGED winVars

\* the scratch directory of the call in progress, if mkpath made it
TempDir == {d \in tempDirs : d.name = exportCall.n}
RECURSIVE ArchiveBytes(_, _)
\* the size of a zip archive that stores the members as they are: a local
\* header and a central directory entry with the name for each, and the end
\* record.  What zip makes of the members is not part of the program; the
\* model only needs the archive to have the size of the file at filePath.
ArchiveBytes(entries, names) ==
  IF names = {} THEN 22
  ELSE LET m == CHOOSE n \in names : TRUE
       IN (30 + Len(m) + FileSize(entries[m]) + 46 + Len(m))
          + ArchiveBytes(entries, names \ {m})
Archive(entries) ==
  [kind |-> "archive", entries |-> entries,
   bytes |-> ArchiveBytes(entries, DOMAIN entries)]
\* zip -r filePath . adds the members of the working directory to the
\* archive at filePath, or makes the archive
Zipped(file, members) ==
  LET old == IF file.kind = "archive" THEN file.entries ELSE <<>>
  IN Archive([m \in DOMAIN old \cup DOMAIN members |->
                IF m \in DOMAIN members THEN members[m] ELSE old[m]])

\* ThreeMfExporter::exportMesh with the scratch directory made before the
\* length of the buffer is checked
ThreeMfExporter_exportMesh_lateCheck(mesh, filePath) ==
  /\ CanExport
  /\ exportCall' = Called("ThreeMf", mesh, filePath)
  /\ IF mesh = <<>>
     THEN /\ exportResult' = ExportResult(FALSE, "Empty mesh", 0)
          /\ UNCHANGED <<tempDirs, exportPc>>
     ELSE /\ tempDirs' = tempDirs \cup {[name |-> exportCall.n + 1, members |-> <<>>]}
          /\ IF Len(mesh) % 3 # 0
             THEN /\ exportResult' =
                       ExportResult(FALSE, "Invalid mesh: vertex count not divisible by 3", 0)
                  /\ exportPc' = "idle"
             ELSE /\ exportPc' = "archive"
                  /\ UNCHANGED exportResult
  /\ UNCHANGED <<files, processes>>
  /\ UNCHANGED genVars
  /\ UNCHANGED winVars

\* ThreeMfExporter::exportMesh up to the start of the archiver: the checks,
\* mkpath (its result is not looked at) and the members, each written if its
\* file could be opened
ThreeMfExporter_exportMesh(mesh, filePath) ==
  /\ CanExport
  /\ exportCall' = Called("ThreeMf", mesh, filePath)
  /\ IF mesh = <<>>
     THEN /\ exportResult' = ExportResult(FALSE, "Empty mesh", 0)
          /\ UNCHANGED <<tempDirs, exportPc>>
     ELSE IF Len(mesh) % 3 # 0
     THEN /\ exportResult' =
               ExportResult(FALSE, "Invalid mesh: vertex count not divisible by 3", 0)
          /\ UNCHANGED <<tempDirs, exportPc>>
     ELSE /\ \E made \in BOOLEAN :
               \E written \in (IF made THEN {Members, Members \ {"3D/3dmodel.model"}}
                               ELSE {{}}) :
                 tempDirs' =
                   IF made
                   THEN tempDirs \cup
                          {[name |-> exportCall.n + 1,
                            members |-> [m \in written |-> MemberContent(m, mesh)]]}
                   ELSE tempDirs
          /\ exportPc' = "archive"
          /\ UNCHANGED exportResult
  /\ UNCHANGED <<files, processes>>
  /\ UNCHANGED genVars
  /\ UNCHANGED winVars

\* process.start("zip", ...), waitForFinished(30000), exitCode(): the
\* archiver may not start (and cannot where the working directory is
\* missing), may still run after 30 s, or may exit, with 0 when it has written
\* the archive; exitCode() is 0 unless a process exited with something else
ThreeMfExporter_archive ==
  /\ exportPc = "archive"
  /\ LET filePath == exportCall.filePath
         canZip == /\ TempDir # {}
                   /\ \A d \in TempDir : DOMAIN d.members # {}
                   /\ CanOpen(filePath)
                   /\ filePath \notin FullPaths
                   /\ files[filePath].kind \in {"none", "archive"}
     IN \E outcome \in {"failedToStart"}
                       \cup (IF TempDir # {} THEN {"timedOut", "exitedWithError"} ELSE {})
                       \cup (IF canZip THEN {"exitedWith0"} ELSE {}) :
          /\ processes' =
               Append(processes,
                      [program |-> "zip", arguments |-> <<"-r", filePath, ".">>,
                       workingDirectory |-> exportCall.n, outcome |-> outcome,
                       exitCode |-> IF outcome = "exitedWithError" THEN 1 ELSE 0])
          /\ files' =
               IF outcome = "exitedWith0"
               THEN [files EXCEPT ![filePath] =
                       Zipped(@, (CHOOSE d \in TempDir : TRUE).members)]
               ELSE files
  /\ exportPc' = "cleanup"
  /\ UNCHANGED <<tempDirs, exportCall, exportResult>>
  /\ UNCHANGED genVars
  /\ UNCHANGED winVars

\* the end of exportMesh with the failure reported before the cleanup
ThreeMfExporter_return_early ==
  /\ exportPc = "cleanup"
  /\ LET success == processes[Len(processes)].exitCode = 0
         file == files[exportCall.filePath]
         size == IF file.kind # "none" THEN FileSize(file) ELSE 0
     IN /\ tempDirs' = IF success THEN tempDirs \ TempDir ELSE tempDirs
        /\ exportResult' =
             IF ~success THEN ExportResult(FALSE, "Failed to create 3MF archive", 0)
             ELSE ExportResult(TRUE, "", size)
  /\ exportPc' = "idle"
  /\ UNCHANGED <<files, processes, exportCall>>
  /\ UNCHANGED genVars
  /\ UNCHANGED winVars

\* removeRecursively, and the result
ThreeMfExporter_return ==
  /\ exportPc = "cleanup"
  /\ tempDirs' = tempDirs \ TempDir
  /\ LET success == processes[Len(processes)].exitCode = 0
         file == files[exportCall.filePath]
         size == IF file.kind # "none" THEN FileSize(file) ELSE 0
     IN exportResult' =
          IF ~success THEN ExportResult(FALSE, "Failed to create 3MF archive", 0)
          ELSE ExportResult(TRUE, "", size)
  /\ exportPc' = "idle"
  /\ UNCHANGED <<files, processes, exportCall>>
  /\ UNCHANGED genVars
  /\ UNCHANGED winVars

ExportNext ==
  \/ \E m_format \in StlFormat, mesh \in ExportMeshes, filePath \in Paths :
       StlExporter_exportMesh(m_format, mesh, filePath)
  \/ \E mesh \in ExportMeshes, filePath \in Paths : ObjExporter_exportMesh(mesh, filePath)
  \/ \E mesh \in ExportMeshes, filePath \in Paths : ThreeMfExporter_exportMesh(mesh, filePath)
  \/ ThreeMfExporter_archive
  \/ ThreeMfExporter_return

vars == <<genVars, expVars, winVars>>

\* the mesh generator and the window that drives it; nothing is exported
Init == GenInit /\ ExpIdle /\ WinInit
Next == GenNext
Spec == Init /\ [][Next]_vars

\* the exporters, called with buffers of their own; the generator is at rest
ExportInit ==
  /\ GenInit
  /\ ~useOpenMP
  /\ m_config = WithOptions(CHOOSE s \in StabilizerOptions : ~s.enableStabilizers,
                            CHOOSE g \in HangerOptions : ~g.enableHangers, FALSE, 1)
  /\ ExpInit
  /\ WinInit
SpecExport == ExportInit /\ [][ExportNext]_vars

\* the main window: previews and the flip checkbox; nothing is exported
WindowInit ==
  /\ GenInit
  /\ m_config \in PreviewConfigs
  /\ ExpIdle
  /\ WinInit
SpecWindow == WindowInit /\ [][WindowNext]_vars

\* ---------------------------------------------------------------- claims
\* What a call of generate with configuration cfg and grid img is to build,
\* written out from the configuration: the surface rows top to bottom, then
\* backside, frame, stabilizers and hangers.
GridW == call.image.width
GridH == call.image.height
SurfaceLen(img) ==
  3 * (2 * (img.width - 1) * (img.height - 1)
       + 4 * (img.height - 1) + 4 * (img.width - 1))
ExpectedSurface(cfg, img) ==
  LithophaneRows(0, img.height - 2, img, cfg, DepthFactor(cfg), WidthFactor(cfg, img),
                 cfg.frameBorder)
ExpectedStabilizers(cfg, img) ==
  IF cfg.enableStabilizers /\ TotalHeight(cfg, img) > cfg.stabilizerThreshold
  THEN StabilizersOf(cfg, cfg.width, TotalHeight(cfg, img), cfg.frameBorder)
  ELSE <<>>
ExpectedHangers(cfg, img) ==
  IF cfg.enableHangers THEN HangersOf(cfg, cfg.width, TotalHeight(cfg, img)) ELSE <<>>
ExpectedFixed(cfg, img) ==
  BacksideVertices(img, cfg, WidthFactor(cfg, img), cfg.frameBorder)
  \o FrameOf(cfg, cfg.width, TotalHeight(cfg, img))
ExpectedTail(cfg, img) ==
  ExpectedFixed(cfg, img) \o ExpectedStabilizers(cfg, img) \o ExpectedHangers(cfg, img)
Expected(cfg, img) == ExpectedSurface(cfg, img) \o ExpectedTail(cfg, img)

\* the part of the buffer the tessellator wrote, and the rest
SurfacePart(mesh) == SubSeq(mesh, 1, SurfaceLen(call.image))
TailPart(mesh) == SubSeq(mesh, SurfaceLen(call.image) + 1, Len(mesh))
Checkpoints == {"progress50", "progress60", "progress80", "progress100"}
Returned == pc = "idle" /\ call.made

\* C3: the buffer generate returns has a length that is a positive multiple of
\* 3 and holds at least 2 (W-1) (H-1) triangles, and the buffer's length is a
\* multiple of 3 at every progress checkpoint.
TheoremC3 ==
  /\ pc \in Checkpoints => Len(m_mesh) % 3 = 0
  /\ Returned =>
       /\ Len(returned) > 0
       /\ Len(returned) % 3 = 0
       /\ Len(returned) \div 3 >= 2 * (GridW - 1) * (GridH - 1)
WitnessC3 ==
  /\ Returned
  /\ GridW = MaxW /\ GridH = MaxH
  /\ call.config.enableStabilizers /\ call.config.enableHangers
  /\ call.config.hangerCount = MaxHangers
  /\ Len(returned) \div 3 > 2 * (GridW - 1) * (GridH - 1)

\* how often iteration y of the row loop has been run, over all threads
RowRuns(y) ==
  Cardinality({ti \in Threads \X (1..(GridH - 1)) :
                 ti[2] \in DOMAIN rowsDone[ti[1]] /\ rowsDone[ti[1]][ti[2]] = y})
\* the cap triangles the y = 0 iteration appends: the first 12 vertices of a cell
CapTriangles(cfg, img) ==
  UNION {Range(Triangles(SubSeq(
            LithophaneCell(x, 0, img.width, img.height,
                           DepthBuffer(img, DepthFactor(cfg)), -cfg.minThickness,
                           WidthFactor(cfg, img), cfg.frameBorder), 1, 12))) :
         x \in 0..(img.width - 2)}

\* C4: whatever the build, the number of threads and the assignment of chunks
\* to threads, the finished buffer holds the same multiset of triangles, the
\* one grid and configuration determine; every row 0..H-2 is run exactly once
\* and the cap triangles of row 0 are in the buffer exactly once.
TheoremC4 ==
  /\ call.made => \A y \in 0..(GridH - 2) : RowRuns(y) <= 1
  /\ pc = "return" =>
       /\ SameMultiset(Triangles(m_mesh), Triangles(Expected(call.config, call.image)))
       /\ \A y \in 0..(GridH - 2) : RowRuns(y) = 1
       /\ \A c \in CapTriangles(call.config, call.image) : Count(Triangles(m_mesh), c) = 1
\* a later call whose second chunk went to thread 0 and whose first to another
WitnessC4 ==
  /\ pc = "return" /\ call.again
  /\ useOpenMP /\ numThreads >= 2
  /\ rowsDone[0] # <<>> /\ Head(rowsDone[0]) > 0
  /\ \E t \in Threads : t # 0 /\ rowsDone[t] # <<>>

AllProgress == <<<<50, 100>>, <<60, 100>>, <<80, 100>>, <<100, 100>>>>

\* C5: the callback is invoked at most 4 times, with total 100 and with 50,
\* 60, 80, 100 in that order; the invocation with 100 comes when every
\* builder has finished; without a callback nothing is invoked and the
\* buffer is the same.
TheoremC5 ==
  /\ Len(progress) <= 4
  /\ progress = SubSeq(AllProgress, 1, Len(progress))
  /\ ~call.callback => progress = <<>>
  /\ Len(progress) = 4 =>
       /\ pc \in {"return", "idle"}
       /\ Len(m_mesh) = SurfaceLen(call.image) + Len(ExpectedTail(call.config, call.image))
  /\ pc = "return" =>
       /\ call.callback => progress = AllProgress
       /\ TailPart(m_mesh) = ExpectedTail(call.config, call.image)
       /\ SameMultiset(Triangles(SurfacePart(m_mesh)),
                       Triangles(ExpectedSurface(call.config, call.image)))
WitnessC5 ==
  /\ pc = "return" /\ call.callback /\ Len(progress) = 4
  /\ call.config.enableStabilizers /\ call.config.enableHangers
  /\ Len(ExpectedStabilizers(call.config, call.image)) > 0

\* C6: the finished buffer is the tessellator's triangles, then the backside,
\* then the frame, then the stabilizers (if emitted), then the hangers (if
\* emitted), each a contiguous block.
TheoremC6 ==
  pc = "return" =>
    LET cfg == call.config
        img == call.image
        wf == WidthFactor(cfg, img)
        n0 == SurfaceLen(img)
        n1 == n0 + Len(BacksideVertices(img, cfg, wf, cfg.frameBorder))
        n2 == n1 + Len(FrameOf(cfg, cfg.width, TotalHeight(cfg, img)))
        n3 == n2 + Len(ExpectedStabilizers(cfg, img))
        n4 == n3 + Len(ExpectedHangers(cfg, img))
    IN /\ Len(m_mesh) = n4
       /\ Range(Triangles(SubSeq(m_mesh, 1, n0))) =
            Range(Triangles(ExpectedSurface(cfg, img)))
       /\ SubSeq(m_mesh, n0 + 1, n1) = BacksideVertices(img, cfg, wf, cfg.frameBorder)
       /\ SubSeq(m_mesh, n1 + 1, n2) = FrameOf(cfg, cfg.width, TotalHeight(cfg, img))
       /\ SubSeq(m_mesh, n2 + 1, n3) = ExpectedStabilizers(cfg, img)
       /\ SubSeq(m_mesh, n3 + 1, n4) = ExpectedHangers(cfg, img)
WitnessC6 ==
  /\ pc = "return"
  /\ useOpenMP /\ numThreads >= 2
  /\ Len(ExpectedStabilizers(call.config, call.image)) > 0
  /\ Len(ExpectedHangers(call.config, call.image)) > 0
  /\ \E t \in Threads : t # 0 /\ rowsDone[t] # <<>>

\* C7: generate starts from an empty buffer, so the buffer it returns, which
\* mesh() gives until the next call, holds the triangles of that call and no
\* others, and meshDimensions() is (width, totalHeight) of that call, also
\* after a later setConfig.
TheoremC7 ==
  /\ pc = "generateLithophane" => m_mesh = <<>>
  /\ pc = "return" =>
       /\ Len(m_mesh) = Len(Expected(call.config, call.image))
       /\ Range(Triangles(m_mesh)) \subseteq Range(Triangles(Expected(call.config, call.image)))
  /\ Returned =>
       /\ returned = m_mesh
       /\ m_meshDimensions = <<call.config.width, TotalHeight(call.config, call.image)>>
\* a later call has returned and the configuration was set again after it
WitnessC7 ==
  /\ Returned /\ call.again
  /\ m_config # call.config
  /\ returned # <<>>

\* C8: the stabilizers are in the buffer, between frame and hangers, if and
\* only if enableStabilizers is set and totalHeight is above the threshold;
\* enabled at or below the threshold the buffer is the one of
\* enableStabilizers = false.
TheoremC8 ==
  pc = "return" =>
    LET cfg == call.config
        img == call.image
        base == SurfaceLen(img) + Len(ExpectedFixed(cfg, img))
        block == SubSeq(m_mesh, base + 1, Len(m_mesh) - Len(ExpectedHangers(cfg, img)))
        above == TotalHeight(cfg, img) > cfg.stabilizerThreshold
        off == [cfg EXCEPT !.enableStabilizers = FALSE]
    IN /\ (cfg.enableStabilizers /\ above) =>
            /\ block # <<>>
            /\ block = StabilizersOf(cfg, cfg.width, TotalHeight(cfg, img), cfg.frameBorder)
       /\ ~(cfg.enableStabilizers /\ above) => block = <<>>
       /\ (cfg.enableStabilizers /\ ~above) =>
            /\ Len(m_mesh) = Len(Expected(off, img))
            /\ TailPart(m_mesh) = ExpectedTail(off, img)
WitnessC8 ==
  /\ pc = "return"
  /\ call.config.enableStabilizers
  /\ TotalHeight(call.config, call.image) = call.config.stabilizerThreshold

\* the vertices of the relief: those of the tessellator's part of the buffer
\* that do not lie on the base plane at -minThickness
FrontVertices ==
  {v \in Range(SurfacePart(m_mesh)) : v[3] # -call.config.minThickness}
\* how far above the base plane the relief is, for the vertices of column x
Thickness(x) ==
  {v[3] + call.config.minThickness :
     v \in {u \in FrontVertices :
              u[1] = x * WidthFactor(call.config, call.image) + call.config.frameBorder}}
Column(img, x) == {img.pixels[r][x] : r \in 0..(img.height - 1)}

\* C9 as stated: for the grid generate is given, sample 0 is the thickest
\* relief (totalThickness above the base plane), sample 255 the thinnest
\* (minThickness above it), linear through depthFactor in between.
CounterexampleC9 ==
  pc = "return" =>
    \A x \in 0..(GridW - 1) :
      Thickness(x) = {call.config.totalThickness - s * DepthFactor(call.config) :
                        s \in Column(call.image, x)}

\* C9, corrected: generate maps the sample of its grid directly, sample 0 to
\* the thinnest relief (minThickness above the base plane), sample 255 to the
\* thickest (totalThickness above it), linear through depthFactor; the relief
\* is inverted with respect to the picture onPreviewClicked loaded, because
\* onPreviewClicked inverts the pixels before it calls generate.
TheoremC9 ==
  pc = "return" =>
    LET cfg == call.config
        df == DepthFactor(cfg)
    IN /\ cfg.minThickness + MaxSample * df = cfg.totalThickness
       /\ \A x \in 0..(GridW - 1) :
            /\ Thickness(x) = {cfg.minThickness + s * df : s \in Column(call.image, x)}
            /\ call.preview =>
                 Thickness(x) = {cfg.totalThickness - q * df : q \in Column(call.picture, x)}
WitnessC9 ==
  /\ pc = "return" /\ call.preview
  /\ 0 \in Column(call.picture, 0)
  /\ MaxSample \in Column(call.picture, 1)
  /\ call.config.totalThickness \in Thickness(0)
  /\ call.config.minThickness \in Thickness(1)

\* the model-space point of grid coordinate (x, y), origin top left, as the
\* specification places it, and as generateLithophane places it
PointAsStated(x, y) ==
  scaleVertex(x, y, call.image.pixels[y][x] * DepthFactor(call.config),
              WidthFactor(call.config, call.image), call.config.frameBorder)
PointOf(x, y) ==
  scaleVertex(x, GridH - 1 - y, call.image.pixels[y][x] * DepthFactor(call.config),
              WidthFactor(call.config, call.image), call.config.frameBorder)
\* the triangles of the tessellator's part with no vertex on the base plane
ReliefTriangles ==
  {i \in DOMAIN Triangles(SurfacePart(m_mesh)) :
     \A k \in 1..3 : Triangles(SurfacePart(m_mesh))[i][k] \in FrontVertices}

\* C10 as stated: the relief vertex of grid coordinate (x, y), origin top
\* left, is (x wf + b, y wf + b, d(sample(x, y))).
CounterexampleC10 ==
  pc = "return" =>
    FrontVertices = {PointAsStated(x, y) : x \in 0..(GridW - 1), y \in 0..(GridH - 1)}

\* C10, corrected: the relief vertex of grid coordinate (x, y), origin top
\* left, is (x wf + b, (H-1-y) wf + b, d(sample(x, y))): scan line y of the
\* grid becomes row H-1-y of the mesh; every cell x in 0..W-2, y in 0..H-2
\* contributes exactly two triangles over its four corner samples.
TheoremC10 ==
  pc = "return" =>
    LET tris == Triangles(SurfacePart(m_mesh))
    IN /\ FrontVertices = {PointOf(x, y) : x \in 0..(GridW - 1), y \in 0..(GridH - 1)}
       /\ Cardinality(ReliefTriangles) = 2 * (GridW - 1) * (GridH - 1)
       /\ \A x \in 0..(GridW - 2), y \in 0..(GridH - 2) :
            /\ Count(tris, <<PointOf(x, y + 1), PointOf(x + 1, y), PointOf(x, y)>>) = 1
            /\ Count(tris, <<PointOf(x, y + 1), PointOf(x + 1, y + 1), PointOf(x + 1, y)>>) = 1
WitnessC10 ==
  /\ pc = "return"
  /\ GridW = MaxW /\ GridH = MaxH
  /\ call.image.pixels[0] # call.image.pixels[GridH - 1]
  /\ PointOf(0, 0) \in FrontVertices
  /\ PointAsStated(0, 0) \notin FrontVertices

\* C1: for each of the four exporters, exportMesh called with an empty buffer
\* returns success = false, an error message that is not empty, and
\* bytesWritten = 0.
TheoremC1 ==
  (exportCall.n > 0 /\ exportCall.mesh = <<>>) =>
    /\ exportCall.exporter \in {"StlBinary", "StlAscii", "Obj", "ThreeMf"}
    /\ exportPc = "idle"
    /\ ~exportResult.success
    /\ exportResult.errorMessage # ""
    /\ exportResult.bytesWritten = 0
\* the 3MF exporter has refused an empty buffer after an export that wrote
WitnessC1 ==
  /\ exportCall.n > 1
  /\ exportCall.exporter = "ThreeMf" /\ exportCall.mesh = <<>>
  /\ exportResult = ExportResult(FALSE, "Empty mesh", 0)
  /\ files[exportCall.filePath].kind \in {"binary", "text", "archive"}

InvalidMesh(mesh) == mesh = <<>> \/ Len(mesh) % 3 # 0

\* C2: for every exporter, a call of exportMesh with a buffer that is empty
\* or whose length is not a multiple of 3 fails without touching the file
\* system: no path is created, truncated or modified, no scratch directory is
\* made and no archiver is started, and the call is over at once.
TheoremC2 ==
  [][(exportCall'.n > exportCall.n /\ InvalidMesh(exportCall'.mesh)) =>
       /\ files' = files
       /\ tempDirs' = tempDirs
       /\ processes' = processes
       /\ exportPc' = "idle"
       /\ ~exportResult'.success
       /\ exportResult'.bytesWritten = 0]_vars
\* the 3MF exporter has refused a buffer of four vertices; the file that was
\* at the path is still there, and nothing was made or started
WitnessC2 ==
  /\ exportCall.exporter = "ThreeMf"
  /\ Len(exportCall.mesh) = 4
  /\ exportCall.filePath = "export" /\ files["export"] = OtherFile
  /\ ~exportResult.success
  /\ tempDirs = {} /\ processes = <<>> /\ exportPc = "idle"

\* ------------------------------------------------------------------ C11
\* A reader of binary STL: the piece of a file that starts at a byte offset,
\* and the triangles read at the offsets the format fixes (the count at 80,
\* triangle t at 84 + 50 (t - 1): normal, three vertices, attribute count).
RECURSIVE PieceAt(_, _)
PieceAt(content, offset) ==
  IF content = <<>> THEN [field |-> "end", bytes |-> 0]
  ELSE IF offset = 0 THEN Head(content)
  ELSE IF offset < Head(content).bytes THEN [field |-> "inside", bytes |-> 0]
  ELSE PieceAt(Tail(content), offset - Head(content).bytes)
ReadBinaryStl(file) ==
  [t \in 1..PieceAt(file.content, 80).value |->
     [j \in 1..3 |-> PieceAt(file.content, 84 + 50 * (t - 1) + 12 * j).value]]
\* a path whose file opens and whose volume takes all that is written
Writable(filePath) == CanOpen(filePath) /\ filePath \notin FullPaths
\* the last call was an export of a valid buffer by the named exporter
Exported(exporter) ==
  /\ exportCall.n > 0
  /\ exportCall.exporter = exporter
  /\ exportPc = "idle"
  /\ ~InvalidMesh(exportCall.mesh)

\* C11: a binary STL export of a valid buffer of n triangles (to a file that
\* opens, on a volume with room) leaves a file of exactly 84 + 50 n bytes: at
\* offset 0 the 80-byte header, the exporter's name followed by zeros; at 80
\* the 4-byte count n; then per triangle, in buffer order, a zero normal of 12
\* bytes, the three vertices in buffer order and a 2-byte attribute count of
\* 0; reading the file back gives exactly the n triangles of the buffer.
TheoremC11 ==
  (Exported("StlBinary") /\ Writable(exportCall.filePath)) =>
    LET file == files[exportCall.filePath]
        n == Len(exportCall.mesh) \div 3
        header == PieceAt(file.content, 0)
        count == PieceAt(file.content, 80)
    IN /\ file.kind = "binary"
       /\ FileSize(file) = 84 + 50 * n
       /\ header.field = "header" /\ header.bytes = 80
       /\ header.value = "LithoMaker Export"
       /\ header.zeros = 80 - Len(header.value) /\ header.zeros > 0
       /\ count.field = "triangleCount" /\ count.bytes = 4 /\ count.value = n
       /\ \A t \in 1..n :
            LET normal == PieceAt(file.content, 84 + 50 * (t - 1))
                attr == PieceAt(file.content, 84 + 50 * (t - 1) + 48)
            IN /\ normal.field = "normal" /\ normal.value = <<0, 0, 0>>
               /\ attr.field = "attrByteCount" /\ attr.bytes = 2 /\ attr.value = 0
               /\ \A j \in 1..3 :
                    PieceAt(file.content, 84 + 50 * (t - 1) + 12 * j).field = "vertex"
       /\ PieceAt(file.content, 84 + 50 * n).field = "end"
       /\ ReadBinaryStl(file) = Triangles(exportCall.mesh)
\* two triangles were exported to a binary file of 184 bytes
WitnessC11 ==
  /\ Exported("StlBinary") /\ Writable(exportCall.filePath)
  /\ Len(exportCall.mesh) = 6
  /\ FileSize(files[exportCall.filePath]) = 184
  /\ exportResult.success

\* ------------------------------------------------------------------ C12
\* The lines of a text file: every write of the exporter is one line (it
\* ends with the only line feed it holds); a line is taken without the line
\* feed and without the tabs it is indented by, its numbers kept apart.
RECURSIVE Unindented(_)
Unindented(s) ==
  IF s # "" /\ SubSeq(s, 1, 1) = "\t" THEN Unindented(SubSeq(s, 2, Len(s))) ELSE s
OneLine(s) ==
  /\ Len(s) > 0
  /\ \A i \in 1..Len(s) : (SubSeq(s, i, i) = "\n") <=> (i = Len(s))
Line(piece) ==
  [text |-> Unindented(SubSeq(piece.text, 1, Len(piece.text) - 1)),
   numbers |-> IF "args" \in DOMAIN piece THEN piece.args ELSE <<>>]
LinesOf(file) == [k \in DOMAIN file.content |-> Line(file.content[k])]
Words(s) == [text |-> s, numbers |-> <<>>]
\* the line sequence of an ASCII STL file of a buffer, the facet line given
FacetLines(mesh, facet, numbers(_)) ==
  <<Words("solid lithophane")>>
  \o Flatten([t \in 1..(Len(mesh) \div 3) |->
                <<Words(facet), Words("outer loop")>>
                \o [j \in 1..3 |-> [text |-> "vertex %1 %2 %3",
                                     numbers |-> numbers(mesh[3 * t - 3 + j])]]
                \o <<Words("endloop"), Words("endfacet")>>],
              1, Len(mesh) \div 3)
  \o <<Words("endsolid")>>
SixDigits(v) == [k \in 1..3 |-> formatG6(v[k]).value]

\* C12 as stated: the lines of an ASCII STL export of a valid buffer are
\* `solid lithophane`, per triangle `facet normal 0 0 0`, `outer loop`, three
\* vertex lines, `endloop`, `endfacet`, and `endsolid`.
CounterexampleC12 ==
  (Exported("StlAscii") /\ Writable(exportCall.filePath)) =>
    LinesOf(files[exportCall.filePath])
      = FacetLines(exportCall.mesh, "facet normal 0 0 0", SixDigits)
\* C12, corrected: the facet line is `facet normal 0.0 0.0 0.0`; with it the
\* line sequence is the stated one, 2 + 7 n lines, every write one line, the
\* vertex lines in buffer order with each coordinate within half a unit of
\* its sixth significant digit.
TheoremC12 ==
  (Exported("StlAscii") /\ Writable(exportCall.filePath)) =>
    LET file == files[exportCall.filePath]
        mesh == exportCall.mesh
        n == Len(mesh) \div 3
    IN /\ file.kind = "text"
       /\ \A k \in DOMAIN file.content : OneLine(file.content[k].text)
       /\ Len(file.content) = 2 + 7 * n
       /\ LinesOf(file) = FacetLines(mesh, "facet normal 0.0 0.0 0.0", SixDigits)
       /\ \A t \in 1..n, j \in 1..3, k \in 1..3 :
            LET c == mesh[3 * t - 3 + j][k]
                written == LinesOf(file)[1 + 7 * (t - 1) + 2 + j].numbers[k]
            IN Abs(written - c) * 200000 <= Abs(c)
\* two triangles were exported to an ASCII file of 16 lines, one coordinate
\* of which was rounded
WitnessC12 ==
  /\ Exported("StlAscii") /\ Writable(exportCall.filePath)
  /\ Len(exportCall.mesh) = 6
  /\ Len(files[exportCall.filePath].content) = 16
  /\ \E k \in 1..16 : \E c \in 1..3 :
       /\ Len(LinesOf(files[exportCall.filePath])[k].numbers) = 3
       /\ LinesOf(files[exportCall.filePath])[k].numbers[c]
            \notin {v[c] : v \in Range(exportCall.mesh)}

\* ------------------------------------------------------------------ C13
\* Readers of the two formats.  In an OBJ file a vertex is the three numbers
\* after a piece "v " and a face the three after a piece "f "; in the model
\* member of a 3MF package they are the numbers of the <vertex .../> and
\* <triangle .../> elements.
RECURSIVE ObjRecords(_, _, _)
ObjRecords(content, lead, k) ==
  IF k > Len(content) THEN <<>>
  ELSE IF "text" \in DOMAIN content[k] /\ content[k].text = lead
    THEN <<<<content[k + 1].value, content[k + 3].value, content[k + 5].value>>>>
         \o ObjRecords(content, lead, k + 7)
  ELSE ObjRecords(content, lead, k + 1)
ObjVertices(file) == ObjRecords(file.content, "v ", 1)
ObjFaces(file) == ObjRecords(file.content, "f ", 1)
Elements(file, tag) ==
  LET IsTag(piece) ==
        /\ "args" \in DOMAIN piece
        /\ Len(piece.text) > 10 + Len(tag)
        /\ SubSeq(piece.text, 11, 10 + Len(tag)) = tag
      found == SelectSeq(file.content, IsTag)
  IN [k \in DOMAIN found |-> found[k].args]
ModelVertices(file) == Elements(file, "<vertex ")
ModelTriangles(file) == Elements(file, "<triangle ")
\* the model member the 3MF call in progress has written to its scratch
\* directory
ModelMembers ==
  IF exportCall.exporter = "ThreeMf" /\ exportPc # "idle"
  THEN {d.members["3D/3dmodel.model"] :
          d \in {e \in TempDir : "3D/3dmodel.model" \in DOMAIN e.members}}
  ELSE {}
\* a vertex to six decimals, and the elements of a sequence in the order of
\* their first occurrence
SixDecimals(v) == <<RoundTo(v[1], 10), RoundTo(v[2], 10), RoundTo(v[3], 10)>>
RECURSIVE FirstOccurrences(_, _)
FirstOccurrences(seq, k) ==
  IF k > Len(seq) THEN <<>>
  ELSE (IF \E j \in 1..(k - 1) : seq[j] = seq[k] THEN <<>> ELSE <<seq[k]>>)
       \o FirstOccurrences(seq, k + 1)
KeysOf(mesh) == [k \in DOMAIN mesh |-> SixDecimals(mesh[k])]
Deduplicated(vertices, faces, mesh) ==
  /\ vertices = FirstOccurrences(KeysOf(mesh), 1)
  /\ Len(vertices) = Cardinality(Range(KeysOf(mesh)))
  /\ Len(faces) = Len(mesh) \div 3
  /\ (\E i, j \in DOMAIN mesh : i # j /\ KeysOf(mesh)[i] = KeysOf(mesh)[j])
       => Len(vertices) < Len(mesh)

\* C13: the vertices of an OBJ file and of the model of a 3MF package are
\* the distinct 6-decimal keys of the buffer's vertices in the order of their
\* first occurrence; if two slots of the buffer share a key there are fewer
\* of them than 3 x triangleCount; the faces (triangles) are as many as the
\* buffer has triangles, also when corners of a triangle merge.
TheoremC13 ==
  /\ (Exported("Obj") /\ Writable(exportCall.filePath)) =>
       LET file == files[exportCall.filePath]
       IN Deduplicated(ObjVertices(file), ObjFaces(file), exportCall.mesh)
  /\ \A model \in ModelMembers :
       Deduplicated(ModelVertices(model), ModelTriangles(model), exportCall.mesh)
\* the model of a 3MF package was written for the triangle of which two
\* corners share a key: two vertices, and the triangle is there
WitnessC13 ==
  /\ exportCall.mesh = <<VertexB, VertexD, VertexC>>
  /\ \E model \in ModelMembers :
       /\ Len(ModelVertices(model)) = 2
       /\ Len(ModelTriangles(model)) = 1

\* ------------------------------------------------------------------ C14
\* the indices of a list of faces, one after the other
Indices(faces) ==
  [k \in 1..(3 * Len(faces)) |-> faces[((k - 1) \div 3) + 1][((k - 1) % 3) + 1]]
\* every index is one of first, ..., first + U - 1 and refers to a vertex with
\* the key of the buffer's vertex at its position
Refers(vertices, indices, mesh, first) ==
  /\ Len(indices) = Len(mesh)
  /\ \A k \in DOMAIN indices :
       /\ indices[k] \in first..(first + Len(vertices) - 1)
       /\ vertices[indices[k] - first + 1] = SixDecimals(mesh[k])
\* what the other exporter makes of the same buffer
ObjOf(mesh) == [kind |-> "text", content |-> ObjPieces(mesh)]
ModelOf(mesh) == MemberContent("3D/3dmodel.model", mesh)

\* C14: the indices of the faces of an OBJ file are in 1..U, those of the
\* triangles of a 3MF model in 0..U-1 (U the number of vertices written); the
\* vertex the k-th index refers to has the 6-decimal key of the k-th vertex
\* of the buffer; and at every position the OBJ index of a buffer is the 3MF
\* index of the same buffer plus one.
TheoremC14 ==
  /\ (Exported("Obj") /\ Writable(exportCall.filePath)) =>
       LET file == files[exportCall.filePath]
           indices == Indices(ObjFaces(file))
           others == Indices(ModelTriangles(ModelOf(exportCall.mesh)))
       IN /\ Refers(ObjVertices(file), indices, exportCall.mesh, 1)
          /\ \A k \in DOMAIN indices : indices[k] = others[k] + 1
  /\ \A model \in ModelMembers :
       LET indices == Indices(ModelTriangles(model))
           others == Indices(ObjFaces(ObjOf(exportCall.mesh)))
       IN /\ Refers(ModelVertices(model), indices, exportCall.mesh, 0)
          /\ \A k \in DOMAIN indices : others[k] = indices[k] + 1
\* an OBJ file was written for the two triangles that share vertices: the
\* second face refers to vertices of the first
WitnessC14 ==
  /\ Exported("Obj") /\ Writable(exportCall.filePath)
  /\ Len(exportCall.mesh) = 6
  /\ ObjFaces(files[exportCall.filePath]) = <<<<1, 2, 3>>, <<1, 3, 2>>>>

\* ------------------------------------------------------------------ C15
\* the archiver run of the 3MF export that has returned
Archiver == processes[Len(processes)]
\* C15: a 3MF export of a valid buffer reports success only if the archiver
\* finished within the wait with exit code 0; if it did not start, was
\* still running when the wait expired, or exited with another code, the
\* result is success=false with the packaging error.
CounterexampleC15 ==
  Exported("ThreeMf") =>
    /\ Archiver.workingDirectory = exportCall.n
    /\ exportResult.success => Archiver.outcome = "exitedWith0"
    /\ Archiver.outcome \in {"failedToStart", "timedOut", "exitedWithError"} =>
         /\ ~exportResult.success
         /\ exportResult.errorMessage = "Failed to create 3MF archive"

\* ------------------------------------------------------------------ C16
\* C16: when a 3MF export of a valid buffer has returned, whatever its
\* outcome (a member not written, the archiver not started, timed out,
\* exited with an error or with 0), no scratch directory is left.
TheoremC16 ==
  /\ exportPc = "idle" => tempDirs = {}
  /\ Exported("ThreeMf") => TempDir = {}
\* a 3MF export has returned after its archiver, started in the scratch
\* directory, exited with an error
WitnessC16 ==
  /\ Exported("ThreeMf")
  /\ Archiver.workingDirectory = exportCall.n
  /\ Archiver.outcome = "exitedWithError"
  /\ ~exportResult.success

\* ------------------------------------------------------------------ C17
\* the text ends with the given words
EndsWith(text, words) ==
  /\ Len(text) >= Len(words)
  /\ SubSeq(text, Len(text) - Len(words) + 1, Len(text)) = words
\* C17: a call of the binary STL, ASCII STL or OBJ exporter with a valid
\* buffer and a path whose file cannot be opened for writing returns
\* success=false, a message that holds the text of the I/O error, and
\* bytesWritten=0, and leaves every file as it was.
TheoremC17 ==
  [][(/\ exportCall'.n > exportCall.n
      /\ exportCall'.exporter \in {"StlBinary", "StlAscii", "Obj"}
      /\ ~InvalidMesh(exportCall'.mesh)
      /\ ~CanOpen(exportCall'.filePath)) =>
       /\ files' = files
       /\ exportPc' = "idle"
       /\ ~exportResult'.success
       /\ exportResult'.bytesWritten = 0
       /\ Len(exportResult'.errorMessage) > Len(errorString)
       /\ EndsWith(exportResult'.errorMessage, errorString)]_vars
\* an OBJ export of a valid buffer has failed on a path that does not open,
\* where the file of somebody else still is
WitnessC17 ==
  /\ Exported("Obj")
  /\ ~CanOpen(exportCall.filePath)
  /\ ~exportResult.success
  /\ files[exportCall.filePath] = OtherFile

\* ------------------------------------------------------------------ C18
\* the file an exporter is to write for a buffer
CompleteFile(exporter, mesh) ==
  IF exporter = "StlBinary" THEN BinaryStl(mesh)
  ELSE IF exporter = "StlAscii" THEN AsciiStl(mesh)
  ELSE [kind |-> "text", content |-> ObjPieces(mesh)]
FileExporters == {"StlBinary", "StlAscii", "Obj"}
\* C18: an export whose file opened and whose writes failed part-way (the
\* volume was full) returns success=false with an error message; a result
\* of success=true means the whole content of the file was written.
CounterexampleC18 ==
  (exportCall.exporter \in FileExporters /\ Exported(exportCall.exporter)) =>
    LET complete == CompleteFile(exportCall.exporter, exportCall.mesh)
    IN /\ exportResult.success => files[exportCall.filePath] = complete
       /\ (/\ CanOpen(exportCall.filePath)
           /\ ~HasRoom(exportCall.filePath, FileSize(complete))) =>
            (~exportResult.success /\ exportResult.errorMessage # "")

\* ------------------------------------------------------------------ C19
\* C19: on a successful export (the file opened, the volume had room, the
\* archiver exited with 0) bytesWritten is the size of the file the call
\* left at the path, and the error message is empty.
CounterexampleC19 ==
  (/\ exportCall.n > 0 /\ exportPc = "idle"
   /\ exportResult.success
   /\ Writable(exportCall.filePath)
   /\ exportCall.exporter = "ThreeMf" => Archiver.outcome = "exitedWith0") =>
    /\ exportResult.bytesWritten = FileSize(files[exportCall.filePath])
    /\ exportResult.errorMessage = ""

\* ------------------------------------------------------------------ C20
\* the call in progress is the one of the scenario: grid 4 x 4, all samples
\* 128, minThickness 0.8, totalThickness 4.0, frameBorder 3.0, width 50,
\* stabilizers and hangers disabled, hangerCount 2
IsScenario ==
  /\ call.made
  /\ call.image \in ScenarioImages
  /\ call.config.minThickness = tenths(8)
  /\ call.config.totalThickness = tenths(40)
  /\ call.config.frameBorder = tenths(30)
  /\ call.config.width = mm(50)
  /\ ~call.config.enableStabilizers
  /\ ~call.config.enableHangers
  /\ call.config.hangerCount = 2
\* the triangles generateFrame has appended, the buffer holding the surface,
\* the backside and the frame
FrameTriangles == (Len(m_mesh) - SurfaceLen(call.image) - 6) \div 3
\* C20 as stated: the frame is 48 triangles whatever the grid and the
\* configuration, and the scenario yields at least 2*3*3 + 48 triangles.
CounterexampleC20 ==
  /\ pc = "progress80" => FrameTriangles = 48
  /\ (pc = "return" /\ IsScenario) => Len(m_mesh) \div 3 >= 2 * 3 * 3 + 48
\* C20, corrected: the frame is 28 triangles (14 quads) whatever the grid
\* and the configuration; the scenario yields 72 triangles on every run,
\* which is at least 2*3*3 for the surface plus the 28 of the frame.
TheoremC20 ==
  /\ pc = "progress80" =>
       /\ FrameTriangles = 28
       /\ Len(m_mesh) = SurfaceLen(call.image) + 6 + 3 * 28
       /\ TailPart(m_mesh)
            = ExpectedFixed(call.config, call.image)
  /\ (pc = "return" /\ IsScenario) =>
       /\ Len(m_mesh) = 3 * 72
       /\ Len(m_mesh) \div 3 >= 2 * 3 * 3 + 28
\* generate is about to return the buffer of the scenario, built by more
\* than one thread
WitnessC20 ==
  /\ pc = "return" /\ IsScenario
  /\ useOpenMP /\ numThreads > 1
  /\ Len(m_mesh) = 3 * 72

\* ------------------------------------------------------------------ C21
\* the stabilizers generateStabilizers has just appended, and what it would
\* have appended in the other mode of permanentStabilizers
StabilizerBlock ==
  SubSeq(m_mesh, SurfaceLen(call.image) + Len(ExpectedFixed(call.config, call.image)) + 1,
         Len(m_mesh))
OtherMode ==
  StabilizersOf([call.config EXCEPT !.permanentStabilizers = ~@], call.config.width,
                TotalHeight(call.config, call.image), call.config.frameBorder)
\* the panel faces, and the triangles of a block all of whose corners are at
\* one depth
FrontFace == call.config.totalThickness - call.config.minThickness
BackFace == -call.config.minThickness
FacesAt(block, z) ==
  {t \in DOMAIN Triangles(block) : \A j \in 1..3 : Triangles(block)[t][j][3] = z}

\* C21: with permanentStabilizers=false the neck vertices of the feet are
\* 1 mm off the panel face they adjoin (front halves at totalThickness -
\* minThickness + 1, back halves at -minThickness - 1) and nothing of a foot
\* touches the panel faces; with permanentStabilizers=true the same vertices
\* lie on the panel faces; every other coordinate of every vertex is the
\* same in both modes; each half of each foot has a face in the neck plane.
TheoremC21 ==
  (pc = "generateHangers" /\ StabilizersNeeded) =>
    LET block == StabilizerBlock
        other == OtherMode
        offset == IF call.config.permanentStabilizers THEN 0 ELSE mm(1)
        neck == {i \in DOMAIN block : block[i][3] # other[i][3]}
    IN /\ Len(block) = Len(other)
       /\ \A i \in DOMAIN block :
            /\ block[i][1] = other[i][1]
            /\ block[i][2] = other[i][2]
       /\ \A i \in neck :
            \/ block[i][3] = FrontFace + offset /\ other[i][3] = FrontFace + mm(1) - offset
            \/ block[i][3] = BackFace - offset /\ other[i][3] = BackFace - mm(1) + offset
       /\ \A i \in DOMAIN block \ neck : block[i][3] \notin {FrontFace, BackFace}
       /\ \A i \in DOMAIN block :
            block[i][3] \in {FrontFace + offset, BackFace - offset} => i \in neck
       /\ Cardinality(FacesAt(block, FrontFace + offset)) = 4
       /\ Cardinality(FacesAt(block, BackFace - offset)) = 4
\* the feet of the breakaway mode have been appended
WitnessC21 ==
  /\ pc = "generateHangers" /\ StabilizersNeeded
  /\ ~call.config.permanentStabilizers
  /\ FacesAt(StabilizerBlock, FrontFace + mm(1)) # {}
  /\ FacesAt(StabilizerBlock, FrontFace) = {}

\* ------------------------------------------------------------------ C22
\* what generateHangers has appended, and the i-th run of 48 vertices of it
HangerBlock ==
  SubSeq(m_mesh,
         SurfaceLen(call.image) + Len(ExpectedFixed(call.config, call.image))
           + Len(ExpectedStabilizers(call.config, call.image)) + 1,
         Len(m_mesh))
Loop(block, i) == SubSeq(block, 48 * i + 1, 48 * i + 48)
Lowest(vertices, k) ==
  CHOOSE c \in {v[k] : v \in Range(vertices)} :
    \A d \in {v[k] : v \in Range(vertices)} : c <= d
Highest(vertices, k) ==
  CHOOSE c \in {v[k] : v \in Range(vertices)} :
    \A d \in {v[k] : v \in Range(vertices)} : c >= d

\* C22: generateHangers appends something if and only if enableHangers is
\* set; then hangerCount loops of 16 triangles each, every loop the first
\* one moved along x by a multiple of width / hangerCount, the i-th (from 0)
\* 9 mm wide around x = (2i+1) width / (2 hangerCount), its base on
\* y = totalHeight.
TheoremC22 ==
  pc = "progress100" =>
    LET cfg == call.config
        n == cfg.hangerCount
        block == HangerBlock
    IN /\ (block # <<>>) <=> cfg.enableHangers
       /\ cfg.enableHangers =>
            /\ Len(block) = n * 48
            /\ \A i \in 0..(n - 1) :
                 LET loop == Loop(block, i)
                     left == Lowest(loop, 1)
                 IN /\ Len(loop) = 3 * 16
                    /\ \A k \in 1..48 :
                         /\ n * (loop[k][1] - Loop(block, 0)[k][1]) = i * cfg.width
                         /\ loop[k][2] = Loop(block, 0)[k][2]
                         /\ loop[k][3] = Loop(block, 0)[k][3]
                    /\ 2 * n * (left + tenths(45)) = (2 * i + 1) * cfg.width
                    /\ Highest(loop, 1) = left + mm(9)
                    /\ Lowest(loop, 2) = TotalHeight(cfg, call.image)
\* two hangers have been appended
WitnessC22 ==
  /\ pc = "progress100"
  /\ call.config.enableHangers /\ call.config.hangerCount = 2
  /\ Len(HangerBlock) = 96
  /\ Lowest(Loop(HangerBlock, 1), 1) - Lowest(Loop(HangerBlock, 0), 1) = mm(25)

\* ------------------------------------------------------------------ C23
\* the undirected edges of a triangle, vertices matched by position, and the
\* number of triangles of a buffer an edge belongs to
EdgesOf(triangle) ==
  {{triangle[1], triangle[2]}, {triangle[2], triangle[3]}, {triangle[3], triangle[1]}}
AllEdges(mesh) == UNION {EdgesOf(Triangles(mesh)[t]) : t \in DOMAIN Triangles(mesh)}
Sharing(mesh, edge) ==
  Cardinality({t \in DOMAIN Triangles(mesh) : edge \in EdgesOf(Triangles(mesh)[t])})
Watertight(mesh) == \A edge \in AllEdges(mesh) : Sharing(mesh, edge) = 2
NoAttachments == ~call.config.enableStabilizers /\ ~call.config.enableHangers

\* C23: with stabilizers and hangers disabled the buffer generate returns is
\* closed: every undirected edge of a triangle is an edge of exactly two
\* triangles.
CounterexampleC23 ==
  (pc = "return" /\ NoAttachments) => Watertight(m_mesh)

\* ------------------------------------------------------------------ C24
RECURSIVE LenBelow(_)
\* the vertices in the private buffers of the workers below t
LenBelow(t) == IF t = 0 THEN 0 ELSE Len(threadMeshes[t - 1]) + LenBelow(t - 1)
AllRowsRun ==
  UNION {Range(rowsDone[t]) : t \in Threads} = 0..LastRow

\* C24: in the parallel tessellation a step that appends to a private
\* buffer is the step of the one worker that owns it, at work on a chunk,
\* and leaves the other private buffers and the shared buffer alone; the
\* shared buffer is written only when every worker has passed the barrier
\* and every row has been run, and it then receives the private buffers one
\* after the other in increasing worker index.
TheoremC24 ==
  [][pc = "parallel" =>
       /\ \A t \in Threads :
            threadMeshes'[t] # threadMeshes[t] /\ pc' = "parallel" =>
              /\ worker[t].state = "work"
              /\ m_mesh' = m_mesh
              /\ Len(threadMeshes'[t]) > Len(threadMeshes[t])
              /\ SubSeq(threadMeshes'[t], 1, Len(threadMeshes[t])) = threadMeshes[t]
              /\ \A u \in Threads \ {t} : threadMeshes'[u] = threadMeshes[u]
       /\ m_mesh' # m_mesh =>
            /\ \A t \in Threads : worker[t].state = "joined"
            /\ AllRowsRun
            /\ Len(m_mesh') = Len(m_mesh) + LenBelow(numThreads)
            /\ \A t \in Threads :
                 SubSeq(m_mesh', Len(m_mesh) + LenBelow(t) + 1,
                        Len(m_mesh) + LenBelow(t + 1)) = threadMeshes[t]]_vars
\* two workers have passed the barrier, each with rows in its private buffer
WitnessC24 ==
  /\ pc = "parallel"
  /\ numThreads = 2
  /\ \A t \in Threads : worker[t].state = "joined" /\ threadMeshes[t] # <<>>
  /\ m_mesh = <<>>

\* ------------------------------------------------------------------ C25
\* the relief sample of grid position (x, y), and the point below it on the
\* base plane
Relief(x, y) ==
  scaleVertex(x, y, DepthBuffer(call.image, m_depthFactor)[y][x], m_widthFactor, m_border)
Base(x, y) == scaleVertex(x, y, -m_config.minThickness, m_widthFactor, m_border)
Perimeter ==
  {p \in (0..(GridW - 1)) \X (0..(GridH - 1)) :
     p[1] \in {0, GridW - 1} \/ p[2] \in {0, GridH - 1}}
LeftEdges == {{Relief(0, y), Relief(0, y + 1)} : y \in 0..(GridH - 2)}
RightEdges == {{Relief(GridW - 1, y), Relief(GridW - 1, y + 1)} : y \in 0..(GridH - 2)}
TopEdges == {{Relief(x, 0), Relief(x + 1, 0)} : x \in 0..(GridW - 2)}
BottomEdges == {{Relief(x, GridH - 1), Relief(x + 1, GridH - 1)} : x \in 0..(GridW - 2)}
PerimeterEdges == LeftEdges \cup RightEdges \cup TopEdges \cup BottomEdges
\* the triangles of a buffer that reach the base plane, by their place
WallTriangles(mesh) ==
  {i \in DOMAIN Triangles(mesh) :
     \E k \in 1..3 : Triangles(mesh)[i][k][3] = -m_config.minThickness}

\* C25: when the tessellator has finished, every edge of the relief surface
\* along the left and right column and the first and last row belongs to
\* exactly one wall triangle, and every vertex of a wall triangle is a relief
\* sample of the perimeter or the point of the base plane z = -minThickness
\* below one; relief and walls together are closed above the base plane:
\* every edge with a vertex off the base plane belongs to exactly two
\* triangles.
TheoremC25 ==
  pc = "progress50" =>
    /\ \A e \in PerimeterEdges :
         Cardinality({i \in WallTriangles(m_mesh) :
                        e \subseteq Range(Triangles(m_mesh)[i])}) = 1
    /\ \A i \in WallTriangles(m_mesh) : \A k \in 1..3 :
         \E p \in Perimeter :
           Triangles(m_mesh)[i][k] \in {Relief(p[1], p[2]), Base(p[1], p[2])}
    /\ \A edge \in AllEdges(m_mesh) :
         (\E v \in edge : v[3] # -m_config.minThickness) => Sharing(m_mesh, edge) = 2
\* the largest grid tessellated by the parallel build, walls on all four sides
WitnessC25 ==
  /\ pc = "progress50"
  /\ GridW = MaxW /\ GridH = MaxH
  /\ useOpenMP
  /\ Cardinality(PerimeterEdges) = 2 * (GridW - 1) + 2 * (GridH - 1)
  /\ Cardinality(WallTriangles(m_mesh)) = 4 * (GridW - 1) + 4 * (GridH - 1)

\* ------------------------------------------------------------------ C26
\* wall triangles standing on one row of the grid (top and bottom walls) and
\* on one column (left and right walls), and the triangles of the relief
TopBottomWalls(mesh) ==
  {i \in WallTriangles(mesh) :
     \A k \in 2..3 : Triangles(mesh)[i][k][2] = Triangles(mesh)[i][1][2]}
LeftRightWalls(mesh) ==
  {i \in WallTriangles(mesh) :
     \A k \in 2..3 : Triangles(mesh)[i][k][1] = Triangles(mesh)[i][1][1]}
SurfaceTriangles(mesh) == DOMAIN Triangles(mesh) \ WallTriangles(mesh)
RanRowZero(t) == 0 \in Range(rowsDone[t])

\* C26: the finished tessellation holds exactly 4 (W-1) top and bottom wall
\* triangles, 4 (H-1) left and right wall triangles and 2 (W-1) (H-1) relief
\* triangles; during the parallel tessellation the private buffer of the
\* worker that ran row 0 holds all 4 (W-1) top and bottom wall triangles and
\* the buffer of a worker that did not holds none.
TheoremC26 ==
  /\ pc = "progress50" =>
       /\ Cardinality(TopBottomWalls(m_mesh)) = 4 * (GridW - 1)
       /\ Cardinality(LeftRightWalls(m_mesh)) = 4 * (GridH - 1)
       /\ Cardinality(SurfaceTriangles(m_mesh)) = 2 * (GridW - 1) * (GridH - 1)
       /\ TopBottomWalls(m_mesh) \cap LeftRightWalls(m_mesh) = {}
       /\ WallTriangles(m_mesh) = TopBottomWalls(m_mesh) \cup LeftRightWalls(m_mesh)
  /\ pc = "parallel" =>
       \A t \in Threads :
         Cardinality(TopBottomWalls(threadMeshes[t])) =
           IF RanRowZero(t) THEN 4 * (GridW - 1) ELSE 0
\* the second worker ran row 0 and the first ran other rows
WitnessC26 ==
  /\ pc = "parallel"
  /\ numThreads = 2
  /\ RanRowZero(1)
  /\ threadMeshes[0] # <<>>
  /\ Cardinality(TopBottomWalls(threadMeshes[1])) = 4 * (GridW - 1)

\* ------------------------------------------------------------------ C27
\* the edges of a hanger off the attachment line y = totalHeight
FreeEdges(loop) == {edge \in AllEdges(loop) : \E v \in edge : v[2] # totalHeight}
\* the outline a face covers: its triangles, seen along z
Outline(loop, z) ==
  {{<<v[1], v[2]>> : v \in Range(Triangles(loop)[t])} :
     t \in {u \in DOMAIN Triangles(loop) : \A k \in 1..3 : Triangles(loop)[u][k][3] = z}}

\* C27: in the triangles of one hanger every undirected edge off the
\* attachment line y = totalHeight is an edge of exactly two triangles, and
\* the front face (z = 0) and the back face (z = 2) cover the same outline.
CounterexampleC27 ==
  (pc = "progress100" /\ call.config.enableHangers) =>
    \A i \in 0..(call.config.hangerCount - 1) :
      /\ \A edge \in FreeEdges(Loop(HangerBlock, i)) :
           Sharing(Loop(HangerBlock, i), edge) = 2
      /\ Outline(Loop(HangerBlock, i), 0) = Outline(Loop(HangerBlock, i), mm(2))

\* ------------------------------------------------------------------ C28
SegmentationRequested(cfg) == cfg.enableSegmentation /\ cfg.backsideSegments > 1
NotSegmented(cfg) == [cfg EXCEPT !.enableSegmentation = FALSE, !.backsideSegments = 1]
\* the six vertices after the tessellator's part of the buffer
BacksideBlock == SubSeq(m_mesh, SurfaceLen(call.image) + 1, SurfaceLen(call.image) + 6)
\* the grid corner (x, y), x and y 0 or 1, on the base plane
Corner(x, y) ==
  << x * (GridW - 1) * WidthFactor(call.config, call.image) + call.config.frameBorder,
     y * (GridH - 1) * WidthFactor(call.config, call.image) + call.config.frameBorder,
     -call.config.minThickness >>

\* the rows thread t ran, in the order it ran them, built for cfg
RowsRunBy(t, cfg) ==
  Flatten([i \in 1..Len(rowsDone[t]) |->
             LithophaneRows(rowsDone[t][i], rowsDone[t][i], call.image, cfg,
                            DepthFactor(cfg), WidthFactor(cfg, call.image),
                            cfg.frameBorder)],
          1, Len(rowsDone[t]))
\* the tessellation cfg gives under the assignment of rows to threads of this call
ScheduledSurface(cfg) ==
  Flatten([t \in Threads |-> RowsRunBy(t, cfg)], 0, numThreads - 1)

\* C28: with segmentation requested the buffer generate returns is the
\* buffer the same call builds with segmentation not requested (under the
\* same assignment of rows to threads; in the serial build the one buffer
\* grid and configuration determine), and in both cases the backside is the
\* quad of two triangles on the base plane from grid corner to grid corner.
TheoremC28 ==
  pc = "return" =>
    /\ SegmentationRequested(call.config) =>
         /\ ~SegmentationRequested(NotSegmented(call.config))
         /\ m_mesh = ScheduledSurface(NotSegmented(call.config))
                       \o ExpectedTail(NotSegmented(call.config), call.image)
         /\ ~useOpenMP => m_mesh = Expected(NotSegmented(call.config), call.image)
    /\ BacksideBlock = << Corner(0, 1), Corner(1, 1), Corner(0, 0),
                          Corner(1, 1), Corner(1, 0), Corner(0, 0) >>
WitnessC28 ==
  /\ pc = "return"
  /\ SegmentationRequested(call.config)
  /\ GridW = MaxW /\ GridH = MaxH
  /\ Len(m_mesh) > SurfaceLen(call.image) + 6

\* ------------------------------------------------------------------ C29
\* the scratch directory of the call holds the three members, each with the
\* whole content generated for the buffer
MembersWritten ==
  /\ TempDir # {}
  /\ \A d \in TempDir :
       /\ DOMAIN d.members = Members
       /\ \A m \in Members : d.members[m] = MemberContent(m, exportCall.mesh)

\* C29: when the 3MF export returns success=true, the scratch directory the
\* archiver was started in held [Content_Types].xml, _rels/.rels and
\* 3D/3dmodel.model, each completely written; with a member missing the
\* export returns success=false.
CounterexampleC29 ==
  [][(exportPc = "cleanup" /\ exportPc' = "idle") =>
       /\ exportResult'.success => MembersWritten
       /\ ~MembersWritten => ~exportResult'.success]_vars

\* ------------------------------------------------------------------ C30
\* export is possible: onExportClicked would export m_currentMesh
ExportPossible == m_meshReady /\ exportEnabled
\* m_currentMesh is the mesh of the last call of generate, and that call was
\* given the picture as the checkbox now asks for it
StoredFromCurrentFlip ==
  /\ call.preview
  /\ m_currentMesh = returned
  /\ (IF call.flip THEN mirrored(call.picture) ELSE call.picture)
       = (IF flipChecked THEN mirrored(call.picture) ELSE call.picture)

\* C30: whenever export is possible in the main window (m_meshReady and the
\* Export button enabled), the stored mesh was generated from the picture
\* flipped as the checkbox says now.
CounterexampleC30 == ExportPossible => StoredFromCurrentFlip
====
